---- MODULE Spec2Model ----
(***************************************************************************)
(* alpha-arena-okx: the trading engine of deepseekok2.py as it is run by   *)
(* app.py (scheduler threads and the health monitor thread), against an    *)
(* exchange whose position, balance and failures are the environment.      *)
(*                                                                         *)
(* Time is in seconds.  A thread that sleeps records the time at which it  *)
(* wakes (field wake); steps take no time unless the code sleeps, and the  *)
(* clock moves to the next wake-up when no thread is ready.                *)
(* Amounts (prices, quantities, margins) are exact rationals <<n, d>>.     *)
(***************************************************************************)
EXTENDS Integers, Sequences, FiniteSets, TLC

\* ------------------------------------------------------------------ bounds
MaxTime    == 1900   \* the clock stops here (two 15-minute boundaries)
MaxTimeApp == 950    \* the same with the health monitor (one boundary)
BootApp    == 600    \* with the health monitor, the process starts this late
MaxThreads == 2      \* scheduler threads that may exist at once
MonitorThreads == 5  \* the same where the monitor is followed to its stop
MaxTimeMonitor == 880  \* the monitor's checks before the first boundary
RoutesFrom    == 890   \* the routes are watched from ten seconds before a boundary
MaxTimeRoutes == 915   \* to fifteen seconds after it
MaxTimeGuardian == 1000 \* the clock of the guardian stops
HealthyChecks == 50     \* passing checks since the last restart, where the hour starts
HourWindow    == 600    \* how long the guardian is watched around the hour
BootHealth    == 540   \* a start five and a half minutes before a boundary
MaxTimeHealth == 1300  \* the monitor's checks around the first boundary
SlowCall   == 4      \* seconds a slow create_market_order call may take
MaxCallers    == 2      \* threads that call adaptive_request
MaxRequests   == 1      \* adaptive_request calls each of them makes
MaxConsumes   == 5      \* wait_for_token calls each of them makes on its own
MaxSerial     == 2      \* adaptive_request calls a thread makes in a row
SteadyCycles  == 29     \* cycles a long-running process has behind it
MaxTimeSteady == 28000  \* the clock of the long-running process stops here
MaxTimeCircuit == 5100  \* five boundaries and two re-initialisation attempts

\* ------------------------------------------------------------ rationals
RECURSIVE GCD(_, _)
GCD(a, b) == IF b = 0 THEN a ELSE GCD(b, a % b)

Rat(n, d) == LET g == GCD(n, d) IN IF n = 0 THEN <<0, 1>> ELSE <<n \div g, d \div g>>
Zero == <<0, 1>>
RLt(a, b) == a[1] * b[2] < b[1] * a[2]
RGt(a, b) == RLt(b, a)
RMul(a, b) == Rat(a[1] * b[1], a[2] * b[2])
RDiv(a, b) == Rat(a[1] * b[2], a[2] * b[1])
RAdd(a, b) == Rat(a[1] * b[2] + b[1] * a[2], a[2] * b[2])
\* a - b, never below zero (a reduce-only order cannot flip a position)
RSubSat(a, b) == IF RLt(a, b) THEN Zero ELSE Rat(a[1] * b[2] - b[1] * a[2], a[2] * b[2])

\* Python's None, one value per type
NoPosition == [side |-> "none", size |-> Zero]
NoTime     == -1
NoPrice    == 0
NaN        == <<0, 0>>     \* a stop_loss / take_profit that is not a number
NoSignal   == [signal |-> "none", confidence |-> "none", stop_loss |-> Zero,
               take_profit |-> Zero, is_fallback |-> FALSE]
NoOrder    == [kind |-> "none", side |-> "none", posSide |-> "none", held |-> FALSE,
               ok |-> FALSE, limited |-> FALSE]

\* ------------------------------------------------- program constants
Leverage        == 10                \* TRADE_CONFIG['leverage']
Margins         == {10, 120}         \* TRADE_CONFIG['margin_usdt'] values considered
MIN_ORDER_SIZE  == <<1, 100>>        \* 0.01
BalanceShare    == <<8, 10>>         \* 0.8 of the free balance
ttl             == 5                 \* position_cache['ttl']
Period          == 900               \* 15-minute boundary of wait_for_next_period
max_no_response == 300
health_check_interval == 60
max_restarts    == 5
guardian_check_interval == 60
guardian_max_restarts   == 10
guardian_max_no_response == 300
max_consecutive_errors == 5          \* run_trading_bot
MaxHistory      == 100               \* trade_history capacity
MaxSignals      == 30                \* signal_history capacity
max_attempts    == 2                 \* analyze_with_deepseek_with_retry

\* rate_limiter.py
TicksPerSecond  == 10                \* the limiter's clock counts tenths of a second
max_retries     == 3                 \* retry_config['max_retries']
base_delay      == 1                 \* retry_config['base_delay']
max_delay       == 60                \* retry_config['max_delay']
backoff_factor  == 2                 \* retry_config['backoff_factor']
QuotaClasses    == {"public", "private"}
capacity(b)     == IF b = "public" THEN 20 ELSE 5
refill_rate(b)  == IF b = "public" THEN 10 ELSE 5

\* ------------------------------------------------- environment inputs
Prices        == {50000}                       \* close of the last candle
Balances      == {60, 150}                     \* free USDT returned by fetch_balance
ContractSize  == <<1, 10>>                     \* contractSize of the swap market
Sides         == {"long", "short"}
Signals       == {"BUY", "SELL", "HOLD"}
Confidences   == {"HIGH", "LOW"}               \* MEDIUM is treated as HIGH is
InitSizes     == {Zero, <<1, 1>>}              \* contracts held when the process starts
Timeframes    == {"15m", "1h", "4h"}           \* TRADE_CONFIG['timeframe'] values considered


VARIABLES
    now,             \* wall clock, seconds since a quarter-hour boundary
    TRADE_CONFIG,    \* [margin_usdt, leverage, position_usdt, test_mode, timeframe]
    exchPos,         \* the exchange: contracts held per position side
    position_cache,  \* [data, timestamp]
    web_data,        \* [trade_history, current_position, last_update, ai_model_info]
    lastOrder,       \* the last order call the exchange received
    posFetch,        \* the last fetch_positions call the exchange received
    exchange,        \* deepseekok2.exchange, the connector handle
    position,        \* deepseekok2.position, written by execute_trade
    th,              \* scheduler threads: program counter and locals
    hm,              \* health monitor thread: pc, wake, restart_count; stale_at is
                     \* the time of the last check that found last_update stale
    horizon,         \* the time at which the clock stops
    signal_history,  \* deepseekok2.signal_history: [signal, is_fallback, timestamp]
    rl_now,          \* rate limiter: time.time(), in tenths of a second
    buckets,         \* rate limiter: per quota class [tokens, last_refill, lock]
    request_stats,   \* rate limiter: the three shared counters
    callers,         \* threads inside adaptive_request: program counter and locals
    grants,          \* the times at which private-class tokens were granted
    func_calls,      \* how many times the wrapped functions have been invoked
    http,            \* the answer of the Flask route that is being served
    pg               \* process_guardian.py: the ProcessGuardian object, its run
                     \* loop and the worker process it holds

\* the scheduler threads the process may come to hold, and the names
\* threads are given
Threads == DOMAIN th
ThreadIds == 1..MonitorThreads

\* the state of rate_limiter.py
rlvars == <<rl_now, buckets, request_stats, callers, grants, func_calls>>

\* the routes of app.py and the guardian process
gvars == <<http, pg>>

\* the state of deepseekok2.py and of the threads of app.py
mainstate == <<now, TRADE_CONFIG, exchPos, position_cache, web_data, lastOrder, posFetch,
               exchange, position, th, hm, horizon, signal_history>>

\* the state of deepseekok2.py, app.py and process_guardian.py
mainvars == <<now, TRADE_CONFIG, exchPos, position_cache, web_data, lastOrder, posFetch,
              exchange, position, th, hm, horizon, signal_history, gvars>>

vars == <<now, TRADE_CONFIG, exchPos, position_cache, web_data, lastOrder, posFetch,
          exchange, position, th, hm, horizon, signal_history, rlvars, gvars>>

\* ---------------------------------------------------------------- state
\* the locals of one trading_bot cycle, as they are before the cycle starts
CycleLocals ==
    [price_data |-> NoPrice, current_position |-> NoPosition, signal_data |-> NoSignal,
     latest_position |-> NoPosition, close_ok |-> "none", usdt_balance |-> Zero,
     margin_usdt |-> Zero, position_usdt |-> Zero, btc_amount |-> Zero, log |-> "none",
     read |-> "none", price_ts |-> NoTime, attempt |-> 0, ai_calls |-> 0, answer |-> "none",
     market_orders |-> 0, indicators_ok |-> TRUE, base_amount |-> Zero,
     stops |-> "none"]

\* a thread that is not inside adaptive_request
NoCaller ==
    [pc |-> "idle", wake |-> 0, via |-> "none", endpoint |-> "none", retry_count |-> 0,
     attempts |-> 0,
     counter |-> "none", tmp |-> 0, after |-> "none", error |-> "none",
     outcome |-> "none", left |-> 0]

Callers == 1..MaxCallers

\* the rate limiter with k tokens in its private bucket and its counters at
\* zero; each caller in who has n requests to make
LimiterState(n, k, who) ==
    /\ rl_now = 0
    /\ buckets = [b \in QuotaClasses |->
                     [tokens |-> IF b = "private" THEN <<k, 1>> ELSE <<capacity(b), 1>>,
                      last_refill |-> 0, lock |-> 0]]
    /\ request_stats = [total_requests |-> 0, successful_requests |-> 0,
                        rate_limited_requests |-> 0]
    /\ callers = [c \in Callers |-> [NoCaller EXCEPT !.left = IF c \in who THEN n ELSE 0]]
    /\ grants = <<>>
    /\ func_calls = 0

\* rate_limiter = AdaptiveRateLimiter(): full buckets
LimiterConstructed(n) == LimiterState(n, capacity("private"), Callers)

\* a thread that has not been created
\* failed_cycles counts the cycles in a row that ended in an exception
NoThread == [pc |-> "off", wake |-> 0, setup_retry_count |-> 0, consecutive_errors |-> 0,
             failed_cycles |-> 0]
                @@ CycleLocals

\* threading.Thread(target=run_trading_bot).start()
StartedThread == [NoThread EXCEPT !.pc = "setup", !.wake = now]

Alive(t) == t \in Threads /\ th[t].pc # "off"
Ready(t) == Alive(t) /\ th[t].wake <= now
Flat == \A s \in Sides : exchPos[s] = Zero

\* Python truthiness of a position: None is the only falsy one
Truthy(p) == p # NoPosition

\* what a fetch_positions answer parses to: the first entry with contracts > 0
ExchangeViews ==
    LET held == {s \in Sides : exchPos[s] # Zero}
    IN  IF held = {} THEN {NoPosition}
        ELSE {[side |-> s, size |-> exchPos[s]] : s \in held}

\* no request is being served
NoReason   == -1
NoResponse == [route |-> "none", code |-> 0, status |-> "none", reason |-> NoReason,
               last_update |-> NoTime, half |-> 0]

\* the guardian is not part of the system under study
\* process is the Popen handle, worker the process behind it; the last four
\* fields are history: what the last check found, why run ended, how many
\* health checks and how many restart attempts have failed in a row
NoGuardian == [pc |-> "off", wake |-> 0, process |-> "None", worker |-> "none",
               restart_count |-> 0, consecutive_failures |-> 0,
               last_restart_time |-> NoTime, seen |-> "none", cause |-> "none",
               failed_health |-> 0, failed_restarts |-> 0]

\* the state when main has started its threads at time t0; monitored tells
\* whether the health monitor thread is part of the system under study
StartAt(monitored, t0, h, k) ==
    /\ now = t0
    /\ horizon = h
    /\ \E m \in Margins, tm \in BOOLEAN :
          TRADE_CONFIG = [margin_usdt |-> m, leverage |-> Leverage,
                          position_usdt |-> m * Leverage, test_mode |-> tm,
                          timeframe |-> "15m"]
    \* the account may hold a position when the process (re)starts
    /\ \E s \in Sides, z \in InitSizes :
          exchPos = [x \in Sides |-> IF x = s THEN z ELSE Zero]
    \* initialize_data: when its OHLCV fetch works it reads the position (which
    \* fills the cache when the query answers) and sets last_update
    /\ \E lu \in {NoTime, t0}, p \in ExchangeViews \cup {NoPosition} :
          /\ lu = NoTime => p = NoPosition
          /\ position_cache = [data |-> p, timestamp |-> IF Truthy(p) THEN t0 ELSE NoTime]
          /\ web_data = [trade_history |-> <<>>, current_position |-> p, last_update |-> lu,
                      ai_model_info |-> [status |-> "connected", last_check |-> t0]]
    /\ lastOrder = NoOrder
    /\ posFetch = [time |-> NoTime, use_cache |-> FALSE, ok |-> FALSE]
    /\ exchange = "okx"
    /\ position = NoPosition
    /\ signal_history = <<>>
    /\ LimiterConstructed(0)
    /\ th = [t \in 1..k |-> IF t = 1 THEN [NoThread EXCEPT !.pc = "setup", !.wake = t0]
                                 ELSE NoThread]
    /\ hm = [pc |-> IF monitored THEN "check" ELSE "off",
             wake |-> t0 + 30 + health_check_interval, restart_count |-> 0,
             stale_at |-> NoTime]
    /\ http = NoResponse
    /\ pg = NoGuardian

Start(monitored, t0) ==
    StartAt(monitored, t0, IF monitored THEN MaxTimeApp ELSE MaxTime, MaxThreads)

Init == Start(FALSE, 0)

\* with the monitor
InitApp == Start(TRUE, BootApp)

\* ------------------------------------------------------- PositionCache
\* the cached entry is returned without an exchange call
CacheHit(use_cache) ==
    /\ use_cache
    /\ Truthy(position_cache.data)
    /\ now - position_cache.timestamp < ttl

\* the error propagates as None and the cached entry is ignored
StaleFallbackBug == NoPosition

\* the value returned when the position query raises
StaleFallback == position_cache.data

PosResults == ExchangeViews \cup {position_cache.data, NoPosition}

\* how a call went: answered from the cache, fetched, or the query raised
Reads == {"cache", "fetched", "raised"}

get_current_position(use_cache, result, how) ==
    IF CacheHit(use_cache)
    THEN /\ how = "cache"
         /\ result = position_cache.data
         /\ UNCHANGED <<position_cache, posFetch>>
    ELSE /\ how \in {"fetched", "raised"}
         /\ posFetch' = [time |-> now, use_cache |-> use_cache, ok |-> (how = "fetched")]
         /\ IF how = "fetched"
            THEN /\ result \in ExchangeViews
                 /\ position_cache' = [data |-> result, timestamp |-> now]
            ELSE /\ result = StaleFallback
                 /\ UNCHANGED position_cache

\* ------------------------------------------------ run_trading_bot loop
Set(t, r) == th' = [th EXCEPT ![t] = r]

\* setup_exchange: load_markets, set_leverage, fetch_balance on the module's
\* exchange object; it never assigns that object, and on None the first call
\* raises AttributeError, which its except branch turns into False
setup_exchange(ok) == exchange # "None" /\ ok

NextBoundary(n) == ((n \div Period) + 1) * Period

Backoff(n) == IF 60 * n < 300 THEN 60 * n ELSE 300

RunSetup(t) ==
    /\ Ready(t) /\ th[t].pc = "setup"
    /\ \E ok \in BOOLEAN :
          IF setup_exchange(ok)
          THEN Set(t, [th[t] EXCEPT !.pc = "loop"])
          ELSE LET n == th[t].setup_retry_count + 1
               IN  IF n >= 10
                   THEN Set(t, [th[t] EXCEPT !.pc = "loop", !.setup_retry_count = n])
                   ELSE Set(t, [th[t] EXCEPT !.setup_retry_count = n,
                                             !.wake = now + Backoff(n)])
    /\ UNCHANGED <<now, TRADE_CONFIG, exchPos, position_cache, web_data, lastOrder,
                   posFetch, exchange, position, hm, horizon, signal_history, rlvars, gvars>>

\* top of the while loop, then trading_bot's wait_for_next_period and sleep
LoopTop(t) ==
    /\ Ready(t) /\ th[t].pc = "loop"
    /\ IF exchange = "None"
       THEN \E ok \in BOOLEAN :
               IF setup_exchange(ok)
               THEN /\ exchange' = "okx"
                    /\ Set(t, [th[t] EXCEPT !.pc = "ohlcv", !.consecutive_errors = 0,
                                            !.wake = NextBoundary(now)])
               ELSE /\ Set(t, [th[t] EXCEPT !.wake = now + 300])
                    /\ UNCHANGED exchange
       ELSE /\ Set(t, [th[t] EXCEPT !.pc = "ohlcv", !.wake = NextBoundary(now)])
            /\ UNCHANGED exchange
    /\ UNCHANGED <<now, TRADE_CONFIG, exchPos, position_cache, web_data, lastOrder,
                   posFetch, position, hm, horizon, signal_history, rlvars, gvars>>

\* the cycle ended in trading_bot's except branch
Failed(r) == r.log = "format error"

\* trading_bot returned: consecutive_errors = 0, sleep(60)
Done(t) ==
    /\ Ready(t) /\ th[t].pc = "done"
    /\ Set(t, [pc |-> "loop", wake |-> now + 60,
               setup_retry_count |-> th[t].setup_retry_count,
               consecutive_errors |-> 0,
               failed_cycles |-> IF Failed(th[t]) THEN th[t].failed_cycles + 1 ELSE 0]
                  @@ CycleLocals)
    /\ UNCHANGED <<now, TRADE_CONFIG, exchPos, position_cache, web_data, lastOrder,
                   posFetch, exchange, position, hm, horizon, signal_history, rlvars, gvars>>

\* run_trading_bot's except branch: count the error, drop the handle at the
\* fifth, sleep
Escaped(t) ==
    LET n == th[t].consecutive_errors + 1
        reset == n >= max_consecutive_errors
        c == IF reset THEN 0 ELSE n
    IN  /\ exchange' = IF reset THEN "None" ELSE exchange
        /\ Set(t, [pc |-> "loop", wake |-> now + Backoff(c),
                   setup_retry_count |-> th[t].setup_retry_count,
                   consecutive_errors |-> c,
                   failed_cycles |-> th[t].failed_cycles + 1] @@ CycleLocals)

\* trading_bot's except branch: print, sleep(10), return; when the print
\* itself raises (stdout is a closed pipe) the exception leaves trading_bot
Except(t) ==
    /\ Ready(t) /\ th[t].pc = "except"
    /\ \E printed \in BOOLEAN :
          IF printed
          THEN /\ Set(t, [th[t] EXCEPT !.pc = "done", !.wake = now + 10])
               /\ UNCHANGED exchange
          ELSE Escaped(t)
    /\ UNCHANGED <<now, TRADE_CONFIG, exchPos, position_cache, web_data, lastOrder,
                   posFetch, position, hm, horizon, signal_history, rlvars, gvars>>

\* ------------------------------------------------------- trading_bot
\* 1. get_btc_ohlcv_enhanced: a price, or None when the fetch fails; the
\* indicators of the snapshot may be unusable (a moving average of zero)
Ohlcv(t) ==
    /\ Ready(t) /\ th[t].pc = "ohlcv"
    /\ \E p \in Prices \cup {NoPrice}, ok \in BOOLEAN :
          IF p = NoPrice
          THEN Set(t, [th[t] EXCEPT !.pc = "done", !.log = "no kline"])
          ELSE Set(t, [th[t] EXCEPT !.pc = "position", !.price_data = p, !.price_ts = now,
                                    !.indicators_ok = ok])
    /\ UNCHANGED <<now, TRADE_CONFIG, exchPos, position_cache, web_data, lastOrder,
                   posFetch, exchange, position, hm, horizon, signal_history, rlvars, gvars>>

\* the cycle goes on to the decision pipeline whatever the position read
PositionBranchBug(r) == "analyze_pos"

\* where the cycle goes after its position read
PositionBranch(r) == IF Truthy(r) THEN "close_check" ELSE "analyze_pos"

\* 2. current_position = get_current_position(use_cache=True)
ReadPosition(t) ==
    /\ Ready(t) /\ th[t].pc = "position"
    /\ \E r \in PosResults, how \in Reads :
          /\ get_current_position(TRUE, r, how)
          /\ Set(t, [th[t] EXCEPT !.pc = PositionBranch(r), !.current_position = r,
                                  !.read = how])
    /\ UNCHANGED <<now, TRADE_CONFIG, exchPos, web_data, lastOrder, exchange, position, hm, horizon, signal_history, rlvars, gvars>>

\* ------------------------------------------------------ exchange orders
\* the functions decorated with @monitored_request: their exchange call runs
\* inside rate_limiter.adaptive_request
Monitored == {"_fetch_ohlcv_from_exchange", "_fetch_balance_from_exchange",
              "_fetch_positions_from_exchange"}

\* the function whose body makes the exchange call of an order of this kind
OrderSite(kind) ==
    IF kind = "open" THEN "execute_trade"
    ELSE IF kind = "close" THEN "execute_close_position"
    ELSE "set_stop_orders"

\* an order call as the exchange receives it: kind is "open" or "close" for
\* create_market_order, "stop" or "take" for the protective create_order;
\* held tells whether the account held a position when the call arrived,
\* limited whether the call was made through the rate limiter
OrderCall(kind, side, posSide, ok) ==
    [kind |-> kind, side |-> side, posSide |-> posSide, held |-> ~Flat, ok |-> ok,
     limited |-> OrderSite(kind) \in Monitored]

\* -------------------------------------------------- check_close_position
min_hold_minutes(timeframe) ==
    IF timeframe = "1h" THEN 60
    ELSE IF timeframe = "4h" THEN 240
    ELSE IF timeframe = "15m" THEN 30
    ELSE 60

\* only a BUY record holds the check back
MinHoldGateBug ==
    /\ web_data.trade_history # <<>>
    /\ LET last_trade == web_data.trade_history[Len(web_data.trade_history)]
       IN  /\ last_trade.signal = "BUY"
           /\ now - last_trade.timestamp < min_hold_minutes(TRADE_CONFIG.timeframe) * 60

\* the last trade record is an open made less than the minimum hold ago
MinHoldGate ==
    /\ web_data.trade_history # <<>>
    /\ LET last_trade == web_data.trade_history[Len(web_data.trade_history)]
       IN  /\ last_trade.signal \in {"BUY", "SELL"}
           /\ now - last_trade.timestamp < min_hold_minutes(TRADE_CONFIG.timeframe) * 60

\* the answers of the advisory service to the close question: a JSON object
\* whose should_close is true, is false, is absent or is a non-empty string
\* (such as "false"), text that does not parse, or the call raising
CloseAnswers == {"true", "false", "missing", "string", "unparsable", "raise"}

\* "if close_decision and close_decision.get('should_close')": Python
\* truthiness, under which every non-empty string counts as true
ReturnsDecision(a) == a \in {"true", "string"}

CloseCheck(t) ==
    /\ Ready(t) /\ th[t].pc = "close_check"
    /\ IF MinHoldGate
       THEN Set(t, [th[t] EXCEPT !.pc = "done", !.log = "min hold"])
       ELSE \E a \in CloseAnswers :
               IF ReturnsDecision(a)
               THEN Set(t, [th[t] EXCEPT !.pc = "close_fetch", !.log = "close advised",
                                         !.ai_calls = @ + 1, !.answer = a])
               ELSE Set(t, [th[t] EXCEPT !.pc = "done", !.log = "keep holding",
                                         !.ai_calls = @ + 1, !.answer = a])
    /\ UNCHANGED <<now, TRADE_CONFIG, exchPos, position_cache, web_data, lastOrder,
                   posFetch, exchange, position, hm, horizon, signal_history, rlvars, gvars>>

\* ------------------------------------------------ execute_close_position
\* latest_position = get_current_position(use_cache=False)
CloseFetch(t) ==
    /\ Ready(t) /\ th[t].pc = "close_fetch"
    /\ \E r \in PosResults, how \in Reads :
          /\ get_current_position(FALSE, r, how)
          /\ IF ~Truthy(r)
             THEN Set(t, [th[t] EXCEPT !.pc = "done", !.close_ok = "true",
                                       !.log = "already closed", !.read = how])
             ELSE Set(t, [th[t] EXCEPT !.pc = "close_order", !.latest_position = r,
                                       !.read = how])
    /\ UNCHANGED <<now, TRADE_CONFIG, exchPos, web_data, lastOrder, exchange, position, hm, horizon, signal_history, rlvars, gvars>>

close_side(side) == IF side = "long" THEN "sell" ELSE "buy"
close_posSide(side) == IF side = "long" THEN "long" ELSE "short"

\* create_market_order(symbol, close_side, size, reduceOnly), then sleep(2)
CloseOrder(t) ==
    /\ Ready(t) /\ th[t].pc = "close_order"
    /\ LET side == th[t].latest_position.side
           size == th[t].latest_position.size
       IN  \E ok \in BOOLEAN, lat \in {0, SlowCall} :
              /\ lastOrder' = OrderCall("close", close_side(side), close_posSide(side), ok)
              /\ IF ok
                 THEN /\ exchPos' = [exchPos EXCEPT ![close_posSide(side)] = RSubSat(@, size)]
                      /\ Set(t, [th[t] EXCEPT !.pc = "close_verify",
                                              !.wake = now + lat + 2])
                 ELSE /\ UNCHANGED exchPos
                      /\ Set(t, [th[t] EXCEPT !.pc = "done", !.close_ok = "false",
                                              !.log = "close failed"])
    /\ UNCHANGED <<now, TRADE_CONFIG, position_cache, web_data, posFetch, exchange,
                   position, hm, horizon, signal_history, rlvars, gvars>>

\* new_position = get_current_position(use_cache=True); return not new_position
CloseVerify(t) ==
    /\ Ready(t) /\ th[t].pc = "close_verify"
    /\ \E r \in PosResults, how \in Reads :
          /\ get_current_position(TRUE, r, how)
          /\ Set(t, [th[t] EXCEPT !.pc = "done",
                                  !.close_ok = IF Truthy(r) THEN "false" ELSE "true",
                                  !.log = "close verified", !.read = how])
    /\ UNCHANGED <<now, TRADE_CONFIG, exchPos, web_data, lastOrder, exchange, position, hm, horizon, signal_history, rlvars, gvars>>

\* ------------------------------------------------- analyze_with_deepseek
create_fallback_signal(price) ==
    [signal |-> "HOLD", confidence |-> "LOW", stop_loss |-> Rat(price * 98, 100),
     take_profit |-> Rat(price * 102, 100), is_fallback |-> TRUE]

Parsed(s, c, sl, tp) ==
    [signal |-> s, confidence |-> c, stop_loss |-> sl, take_profit |-> tp,
     is_fallback |-> FALSE]

\* answers that parse and carry the five required fields: every signal and
\* confidence with usable stops, and an opening signal with a stop_loss of
\* zero, with a stop_loss that is not a number, with an unknown signal value
ParsedSignals(price) ==
    LET sl == Rat(price * 98, 100)
        tp == Rat(price * 102, 100)
    IN  { Parsed(s, c, sl, tp) : s \in Signals, c \in Confidences }
           \cup { Parsed("SELL", "HIGH", Zero, tp), Parsed("BUY", "HIGH", NaN, tp),
                  Parsed("STRONG_BUY", "HIGH", sl, tp) }

\* the fields an answer must carry
Required == {"signal", "reason", "stop_loss", "take_profit", "confidence"}

\* the field sets of the JSON answers considered
FieldSets == {Required, Required \ {"reason"}, Required \ {"stop_loss"}, {}}

\* how the advisory call ends: it raises, it returns no content, text without
\* braces, braces that do not parse, or a JSON object
AnswerKinds == {"raise", "empty", "nojson", "unparsable", "json"}

\* what the service answered, in one word
Answer(kind, fields) ==
    IF kind = "json" /\ fields # Required THEN "missing" ELSE kind

\* only the parse is checked, not the fields
UsesFallbackBug(kind, fields) == kind # "json"

\* the paths of analyze_with_deepseek that end with the fallback signal
UsesFallback(kind, fields) == kind # "json" \/ \E f \in Required : f \notin fields

analyze_with_deepseek(kind, fields, s, price) ==
    IF UsesFallback(kind, fields) THEN create_fallback_signal(price) ELSE s

\* the paths that reach the append to signal_history: the empty answers and
\* the except branch return before it
ReachesAppend(kind) == kind \notin {"raise", "empty"}

HistoryEntry(sig, ts) ==
    [signal |-> sig.signal, is_fallback |-> sig.is_fallback, timestamp |-> ts]

\* the entry is appended and nothing is ever dropped
AppendSignalBug(h, e) == Append(h, e)

\* signal_history.append, then pop(0) when more than 30 are held
AppendSignal(h, e) ==
    LET h2 == Append(h, e) IN IF Len(h2) > MaxSignals THEN Tail(h2) ELSE h2

\* a fallback result is not returned: the loop goes on to the next attempt
ReturnsResultBug(sig) == sig # NoSignal /\ ~sig.is_fallback

\* the wrapper's "if signal_data: return signal_data"
ReturnsResult(sig) == sig # NoSignal

\* the wrapper's except branch: sleep 2 ** attempt and try again, or give up
\* and return the fallback signal
WrapperExcept(loc) ==
    IF loc.attempt < max_attempts - 1
    THEN [loc EXCEPT !.attempt = @ + 1, !.wake = now + 2 ^ loc.attempt]
    ELSE [loc EXCEPT !.pc = "update",
                     !.signal_data = create_fallback_signal(loc.price_data)]

\* the wrapper's loop goes on without an exception
NextAttempt(loc) ==
    IF loc.attempt + 1 < max_attempts
    THEN [loc EXCEPT !.attempt = @ + 1, !.pc = "analyze_pos"]
    ELSE [loc EXCEPT !.pc = "update",
                     !.signal_data = create_fallback_signal(loc.price_data)]

\* analyze_with_deepseek up to the advisory call: the technical text is
\* built outside the function's try block (it divides by the moving averages
\* and raises when one is zero), then the position is read for the prompt
AnalyzePos(t) ==
    /\ Ready(t) /\ th[t].pc = "analyze_pos"
    /\ IF ~th[t].indicators_ok
       THEN /\ Set(t, WrapperExcept(th[t]))
            /\ UNCHANGED <<position_cache, posFetch>>
       ELSE \E r \in PosResults, how \in Reads :
            /\ get_current_position(TRUE, r, how)
            /\ Set(t, [th[t] EXCEPT !.pc = "analyze_ai", !.read = how])
    /\ UNCHANGED <<now, TRADE_CONFIG, exchPos, web_data, lastOrder, exchange, position, hm,
                   horizon, signal_history, rlvars, gvars>>

\* the advisory call and what analyze_with_deepseek makes of its answer
AnalyzeAI(t) ==
    /\ Ready(t) /\ th[t].pc = "analyze_ai"
    /\ \E kind \in AnswerKinds, fields \in FieldSets, s \in ParsedSignals(th[t].price_data) :
          LET sig == analyze_with_deepseek(kind, fields, s, th[t].price_data)
              loc == [th[t] EXCEPT !.ai_calls = @ + 1, !.answer = Answer(kind, fields),
                                   !.signal_data = sig]
          IN  /\ signal_history' =
                    IF ReachesAppend(kind)
                    THEN AppendSignal(signal_history, HistoryEntry(sig, th[t].price_ts))
                    ELSE signal_history
              /\ IF ReturnsResult(sig)
                 THEN Set(t, [loc EXCEPT !.pc = "update"])
                 ELSE Set(t, NextAttempt(loc))
    /\ UNCHANGED <<now, TRADE_CONFIG, exchPos, position_cache, web_data, lastOrder,
                   posFetch, exchange, position, hm, horizon, rlvars, gvars>>

\* trading_bot step 3: the shared state bundle is refreshed
UpdateWebData(t) ==
    /\ Ready(t) /\ th[t].pc = "update"
    /\ web_data' = [web_data EXCEPT !.current_position = th[t].current_position,
                                    !.last_update = now]
    /\ Set(t, [th[t] EXCEPT !.pc = "trade_check"])
    /\ UNCHANGED <<now, TRADE_CONFIG, exchPos, position_cache, lastOrder, posFetch,
                   exchange, position, hm, horizon, signal_history, rlvars, gvars>>

\* --------------------------------------------------------- execute_trade
\* the test-mode flag is read the wrong way round
LowConfidenceSkipBug(sig) == sig.confidence = "LOW" /\ TRADE_CONFIG.test_mode

LowConfidenceSkip(sig) == sig.confidence = "LOW" /\ ~TRADE_CONFIG.test_mode

\* the check is passed over
IsHoldBug(sig) == FALSE

\* "if signal_data['signal'] == 'HOLD'"
IsHold(sig) == sig.signal = "HOLD"

\* the defensive checks before the try block
TradeCheck(t) ==
    /\ Ready(t) /\ th[t].pc = "trade_check"
    /\ LET sig == th[t].signal_data
       IN  IF IsHold(sig)
           THEN /\ Set(t, [th[t] EXCEPT !.pc = "done", !.log = "hold"])
                /\ UNCHANGED <<position_cache, posFetch>>
           ELSE \E r \in PosResults, how \in Reads :
                /\ get_current_position(TRUE, r, how)
                /\ IF Truthy(r)
                   THEN Set(t, [th[t] EXCEPT !.pc = "done", !.log = "position exists",
                                             !.read = how])
                   ELSE IF sig.stop_loss = NaN \/ sig.take_profit = NaN
                   THEN Set(t, [th[t] EXCEPT !.pc = "except", !.log = "format error",
                                             !.read = how])
                   ELSE IF LowConfidenceSkip(sig)
                   THEN Set(t, [th[t] EXCEPT !.pc = "done", !.log = "low confidence",
                                             !.read = how])
                   ELSE IF TRADE_CONFIG.test_mode
                   THEN Set(t, [th[t] EXCEPT !.pc = "done", !.log = "test mode",
                                             !.read = how])
                   ELSE Set(t, [th[t] EXCEPT !.pc = "trade_size", !.log = "flat",
                                             !.read = how])
    /\ UNCHANGED <<now, TRADE_CONFIG, exchPos, web_data, lastOrder, exchange, position, hm, horizon, signal_history, rlvars, gvars>>

\* the quantity is clamped but the configured margin and notional are kept
SizingBug(price) ==
    LET btc_amount == Rat(TRADE_CONFIG.position_usdt, price)
    IN  [btc_amount    |-> IF RLt(btc_amount, MIN_ORDER_SIZE) THEN MIN_ORDER_SIZE
                           ELSE btc_amount,
         position_usdt |-> <<TRADE_CONFIG.position_usdt, 1>>,
         margin_usdt   |-> <<TRADE_CONFIG.margin_usdt, 1>>]

\* quantity, notional and margin for a price, clamped up to the minimum size
Sizing(price) ==
    LET btc_amount == Rat(TRADE_CONFIG.position_usdt, price)
    IN  IF RLt(btc_amount, MIN_ORDER_SIZE)
        THEN LET actual_position_usdt == RMul(MIN_ORDER_SIZE, <<price, 1>>)
             IN  [btc_amount    |-> MIN_ORDER_SIZE,
                  position_usdt |-> actual_position_usdt,
                  margin_usdt   |-> RDiv(actual_position_usdt, <<TRADE_CONFIG.leverage, 1>>)]
        ELSE [btc_amount    |-> btc_amount,
              position_usdt |-> <<TRADE_CONFIG.position_usdt, 1>>,
              margin_usdt   |-> <<TRADE_CONFIG.margin_usdt, 1>>]

\* load_markets: the market with its contractSize, no market, or an error
MarketLookups == {"ok", "missing", "raise"}

Contracts(btc_amount, m) ==
    IF m = "ok" THEN RDiv(btc_amount, ContractSize)
    ELSE IF m = "missing" THEN RDiv(btc_amount, <<1, 1>>)
    ELSE btc_amount

\* the margin is compared with the whole balance, as test_order_amount does
InsufficientMarginBug(margin_usdt, usdt_balance) == RGt(margin_usdt, usdt_balance)

InsufficientMargin(margin_usdt, usdt_balance) ==
    RGt(margin_usdt, RMul(usdt_balance, BalanceShare))

\* balance, sizing, contract conversion and the affordability check
TradeSize(t) ==
    /\ Ready(t) /\ th[t].pc = "trade_size"
    /\ \E b \in Balances \cup {0}, m \in MarketLookups :
          IF b = 0     \* _fetch_balance_from_exchange raised
          THEN Set(t, [th[t] EXCEPT !.pc = "done", !.log = "order error"])
          ELSE LET sz == Sizing(th[t].price_data)
                   loc == [th[t] EXCEPT !.usdt_balance = <<b, 1>>,
                                        !.base_amount = sz.btc_amount,
                                        !.btc_amount = Contracts(sz.btc_amount, m),
                                        !.margin_usdt = sz.margin_usdt,
                                        !.position_usdt = sz.position_usdt]
               IN  IF InsufficientMargin(sz.margin_usdt, <<b, 1>>)
                   THEN Set(t, [loc EXCEPT !.pc = "done", !.log = "insufficient margin"])
                   ELSE Set(t, [loc EXCEPT !.pc = "trade_order"])
    /\ UNCHANGED <<now, TRADE_CONFIG, exchPos, position_cache, web_data, lastOrder,
                   posFetch, exchange, position, hm, horizon, signal_history, rlvars, gvars>>

\* no market order is sent for this signal
NoOpen == [side |-> "none", posSide |-> "none"]

\* every signal is an order, and a SELL is tagged as a long
open_orderBug(signal) ==
    IF signal = "BUY" THEN [side |-> "buy", posSide |-> "long"]
    ELSE [side |-> "sell", posSide |-> "long"]

\* the side and posSide of the market order sent for a signal
open_order(signal) ==
    IF signal = "BUY" THEN [side |-> "buy", posSide |-> "long"]
    ELSE IF signal = "SELL" THEN [side |-> "sell", posSide |-> "short"]
    ELSE NoOpen

\* the market order of the signal's side, then sleep(2)
TradeOrder(t) ==
    /\ Ready(t) /\ th[t].pc = "trade_order"
    /\ LET o == open_order(th[t].signal_data.signal)
       IN  IF o = NoOpen
           THEN /\ Set(t, [th[t] EXCEPT !.pc = "done", !.log = "unknown signal"])
                /\ UNCHANGED <<exchPos, lastOrder>>
           ELSE \E ok \in BOOLEAN :
                /\ lastOrder' = OrderCall("open", o.side, o.posSide, ok)
                /\ IF ok
                   THEN /\ exchPos' = [exchPos EXCEPT ![o.posSide] = RAdd(@, th[t].btc_amount)]
                        /\ Set(t, [th[t] EXCEPT !.pc = "trade_reread", !.log = "order sent",
                                                !.market_orders = @ + 1,
                                                !.wake = now + 2])
                   ELSE /\ UNCHANGED exchPos
                        /\ Set(t, [th[t] EXCEPT !.pc = "done", !.log = "order error",
                                                !.market_orders = @ + 1])
    /\ UNCHANGED <<now, TRADE_CONFIG, position_cache, web_data, posFetch, exchange,
                   position, hm, horizon, signal_history, rlvars, gvars>>

\* position = get_current_position(use_cache=True)
TradeReread(t) ==
    /\ Ready(t) /\ th[t].pc = "trade_reread"
    /\ \E r \in PosResults, how \in Reads :
          /\ get_current_position(TRUE, r, how)
          /\ position' = r
          /\ Set(t, [th[t] EXCEPT !.pc = "trade_stops", !.read = how])
    /\ UNCHANGED <<now, TRADE_CONFIG, exchPos, web_data, lastOrder, exchange, hm, horizon, signal_history, rlvars, gvars>>

\* the outcomes of set_stop_orders: the stop-loss call raises, the
\* take-profit call raises, or both orders are placed
StopOutcomes == {"sl_fail", "tp_fail", "ok"}

\* how the protective orders of a trade can go: they are skipped when no
\* position is seen or a price is not positive
ProtectiveOutcomes(pos, sig) ==
    IF Truthy(pos) /\ RGt(sig.stop_loss, Zero) /\ RGt(sig.take_profit, Zero)
    THEN StopOutcomes ELSE {"skipped"}

\* the trade is recorded only when both protective orders were placed
RecordsTradeBug(o) == o = "ok"

\* the trade record is built after the protective orders' try/except,
\* whatever happened there
RecordsTrade(o) == TRUE

trade_record(t) ==
    [timestamp |-> now, signal |-> th[t].signal_data.signal, price |-> th[t].price_data,
     amount |-> th[t].btc_amount, margin_usdt |-> th[t].margin_usdt,
     position_usdt |-> th[t].position_usdt, confidence |-> th[t].signal_data.confidence]

AppendTrade(h, rec) ==
    LET h2 == Append(h, rec) IN IF Len(h2) > MaxHistory THEN Tail(h2) ELSE h2

\* protective orders when a position is seen, then the trade record
TradeStops(t) ==
    /\ Ready(t) /\ th[t].pc = "trade_stops"
    /\ LET side == IF position.side = "long" THEN "sell" ELSE "buy"
           posSide == IF position.side = "long" THEN "long" ELSE "short"
       IN  \E o \in ProtectiveOutcomes(position, th[t].signal_data) :
              /\ lastOrder' = IF o = "skipped" THEN lastOrder
                              ELSE OrderCall(IF o = "sl_fail" THEN "stop" ELSE "take",
                                             side, posSide, o = "ok")
              /\ web_data' = IF RecordsTrade(o)
                             THEN [web_data EXCEPT
                                      !.trade_history = AppendTrade(@, trade_record(t))]
                             ELSE web_data
              /\ Set(t, [th[t] EXCEPT !.pc = "done", !.log = "traded", !.stops = o])
    /\ UNCHANGED <<now, TRADE_CONFIG, exchPos, position_cache, posFetch, exchange,
                   position, hm, horizon, signal_history, rlvars, gvars>>

\* ------------------------------------------------------- environment
\* a held position is closed on the exchange side (a protective order
\* triggers, or the position is liquidated)
PositionClosed ==
    /\ \E s \in Sides :
          /\ exchPos[s] # Zero
          /\ exchPos' = [exchPos EXCEPT ![s] = Zero]
    /\ UNCHANGED <<now, TRADE_CONFIG, position_cache, web_data, lastOrder, posFetch,
                   exchange, position, th, hm, horizon, signal_history, rlvars, gvars>>

\* --------------------------------------------------------- health_monitor
FreeThreads == {t \in Threads : ~Alive(t)}

HealthCheck ==
    /\ hm.pc = "check" /\ hm.wake <= now
    /\ IF web_data.last_update = NoTime
       THEN /\ hm' = [hm EXCEPT !.wake = now + health_check_interval]
            /\ UNCHANGED th
       ELSE IF now - web_data.last_update > max_no_response
       THEN IF hm.restart_count + 1 >= max_restarts
            THEN /\ hm' = [hm EXCEPT !.pc = "stopped", !.restart_count = @ + 1,
                                     !.stale_at = now]
                 /\ UNCHANGED th
            ELSE IF FreeThreads = {}
            THEN \* the thread bound of the model is reached
                 /\ hm' = [hm EXCEPT !.pc = "capped", !.restart_count = @ + 1,
                                     !.stale_at = now]
                 /\ UNCHANGED th
            ELSE /\ LET t == CHOOSE x \in FreeThreads : \A y \in FreeThreads : x <= y
                    IN  th' = [th EXCEPT ![t] = StartedThread]
                 /\ hm' = [hm EXCEPT !.restart_count = @ + 1, !.stale_at = now,
                                     !.wake = now + 60 + health_check_interval]
       ELSE /\ hm' = [hm EXCEPT !.restart_count = 0, !.wake = now + health_check_interval]
            /\ UNCHANGED th
    /\ UNCHANGED <<now, TRADE_CONFIG, exchPos, position_cache, web_data, lastOrder,
                   posFetch, exchange, position, horizon, signal_history, rlvars, gvars>>

\* ------------------------------------------------------------- clock
WakeTimes == {th[t].wake : t \in {x \in Threads : Alive(x)}}
                 \cup (IF hm.pc = "check" THEN {hm.wake} ELSE {})
                 \cup (IF pg.pc \in {"run", "boot", "sleep"} THEN {pg.wake} ELSE {})

\* every thread sleeps: the clock moves to the first wake-up
Advance ==
    /\ \A w \in WakeTimes : w > now
    /\ WakeTimes # {}
    /\ LET next == CHOOSE w \in WakeTimes : \A v \in WakeTimes : w <= v
       IN  /\ next <= horizon
           /\ now' = next
    /\ UNCHANGED <<TRADE_CONFIG, exchPos, position_cache, web_data, lastOrder, posFetch,
                   exchange, position, th, hm, horizon, signal_history, rlvars, gvars>>

Next ==
    \/ \E t \in ThreadIds : RunSetup(t)
    \/ \E t \in ThreadIds : LoopTop(t)
    \/ \E t \in ThreadIds : Ohlcv(t)
    \/ \E t \in ThreadIds : ReadPosition(t)
    \/ \E t \in ThreadIds : CloseCheck(t)
    \/ \E t \in ThreadIds : CloseFetch(t)
    \/ \E t \in ThreadIds : CloseOrder(t)
    \/ \E t \in ThreadIds : CloseVerify(t)
    \/ \E t \in ThreadIds : AnalyzePos(t)
    \/ \E t \in ThreadIds : AnalyzeAI(t)
    \/ \E t \in ThreadIds : UpdateWebData(t)
    \/ \E t \in ThreadIds : TradeCheck(t)
    \/ \E t \in ThreadIds : TradeSize(t)
    \/ \E t \in ThreadIds : TradeOrder(t)
    \/ \E t \in ThreadIds : TradeReread(t)
    \/ \E t \in ThreadIds : TradeStops(t)
    \/ \E t \in ThreadIds : Done(t)
    \/ \E t \in ThreadIds : Except(t)
    \/ PositionClosed
    \/ Advance

\* the scheduler thread started by main and the exchange
Spec == Init /\ [][Next]_vars

\* the same with the health monitor and the threads it starts
NextApp == Next \/ HealthCheck

\* a process that has been running for SteadyCycles quarter-hours with the
\* repository's margin and a candle timeframe: every cycle found no position, got a HOLD
\* from the advisory service and recorded it; the thread is in the sleep(60)
\* after the last cycle.  The account may have got a position since then.
SteadyHistory ==
    [i \in 1..SteadyCycles |->
        [signal |-> "HOLD", is_fallback |-> FALSE, timestamp |-> i * Period]]

InitSteady ==
    LET last == SteadyCycles * Period
    IN  /\ now = last
        /\ horizon = MaxTimeSteady
        /\ \E tf \in Timeframes :
              TRADE_CONFIG = [margin_usdt |-> 120, leverage |-> Leverage,
                              position_usdt |-> 120 * Leverage, test_mode |-> FALSE,
                              timeframe |-> tf]
        /\ \E z \in InitSizes : exchPos = [x \in Sides |-> IF x = "long" THEN z ELSE Zero]
        /\ position_cache = [data |-> NoPosition, timestamp |-> last]
        /\ web_data = [trade_history |-> <<>>, current_position |-> NoPosition,
                       last_update |-> last,
                       ai_model_info |-> [status |-> "connected", last_check |-> 0]]
        /\ lastOrder = NoOrder
        /\ posFetch = [time |-> last, use_cache |-> TRUE, ok |-> TRUE]
        /\ exchange = "okx"
        /\ position = NoPosition
        /\ signal_history = SteadyHistory
        /\ LimiterConstructed(0)
        /\ th = [t \in 1..MaxThreads |->
                    IF t = 1 THEN [NoThread EXCEPT !.pc = "loop", !.wake = last + 60]
                    ELSE NoThread]
        /\ hm = [pc |-> "off", wake |-> 0, restart_count |-> 0, stale_at |-> NoTime]
        /\ http = NoResponse
        /\ pg = NoGuardian

\* the steps of a process whose setup is behind it
NextSteady ==
    \/ \E t \in ThreadIds : LoopTop(t)
    \/ \E t \in ThreadIds : Ohlcv(t)
    \/ \E t \in ThreadIds : ReadPosition(t)
    \/ \E t \in ThreadIds : CloseCheck(t)
    \/ \E t \in ThreadIds : CloseFetch(t)
    \/ \E t \in ThreadIds : CloseOrder(t)
    \/ \E t \in ThreadIds : CloseVerify(t)
    \/ \E t \in ThreadIds : AnalyzePos(t)
    \/ \E t \in ThreadIds : AnalyzeAI(t)
    \/ \E t \in ThreadIds : UpdateWebData(t)
    \/ \E t \in ThreadIds : TradeCheck(t)
    \/ \E t \in ThreadIds : TradeSize(t)
    \/ \E t \in ThreadIds : TradeOrder(t)
    \/ \E t \in ThreadIds : TradeReread(t)
    \/ \E t \in ThreadIds : TradeStops(t)
    \/ \E t \in ThreadIds : Done(t)
    \/ \E t \in ThreadIds : Except(t)
    \/ PositionClosed
    \/ Advance

SpecSteady == InitSteady /\ [][NextSteady]_vars

SpecApp == InitApp /\ [][NextApp]_vars

\* ------------------------------------------------- the first quarter hour
\* the process from its start to just before the first boundary: the
\* scheduler threads set up and wait for the boundary, the monitor checks
InitMonitor == StartAt(TRUE, 0, MaxTimeMonitor, MonitorThreads)

NextMonitor ==
    \/ \E t \in ThreadIds : RunSetup(t)
    \/ \E t \in ThreadIds : LoopTop(t)
    \/ HealthCheck
    \/ Advance

SpecMonitor == InitMonitor /\ [][NextMonitor]_vars

\* ------------------------------------------------- the failing cycles
\* the scheduler over five boundaries and more. What run_trading_bot and the
\* monitor see of a cycle is how trading_bot's try block ends: one of its
\* statements raises and the except branch takes over; it returns before the
\* shared state is refreshed (no snapshot, or a position is held); or it
\* goes through the refresh, which is reached only with no position read
CycleEnds == {"raised", "returned", "refreshed"}

trading_bot(t) ==
    /\ Ready(t) /\ th[t].pc = "ohlcv"
    /\ \E end \in CycleEnds :
          /\ web_data' = IF end = "refreshed"
                         THEN [web_data EXCEPT !.current_position = NoPosition,
                                               !.last_update = now]
                         ELSE web_data
          /\ IF end = "raised"
             THEN Set(t, [th[t] EXCEPT !.pc = "except", !.log = "format error"])
             ELSE Set(t, [th[t] EXCEPT !.pc = "done", !.log = "hold"])
    /\ UNCHANGED <<now, TRADE_CONFIG, exchPos, position_cache, lastOrder,
                   posFetch, exchange, position, hm, horizon, signal_history, rlvars, gvars>>

InitCircuit == StartAt(FALSE, 0, MaxTimeCircuit, MaxThreads)

NextCircuit ==
    \/ \E t \in ThreadIds : RunSetup(t)
    \/ \E t \in ThreadIds : LoopTop(t)
    \/ \E t \in ThreadIds : trading_bot(t)
    \/ \E t \in ThreadIds : Except(t)
    \/ \E t \in ThreadIds : Done(t)
    \/ Advance

SpecCircuit == InitCircuit /\ [][NextCircuit]_vars

\* ---------------------------------------------------- the routes of app.py
\* the routes that only read the shared state and answer with a copy of it
ReadRoutes == {"/api/dashboard", "/api/kline", "/api/trades", "/api/ai_decisions",
               "/api/signals", "/api/profit_curve", "/api/ai_model_info"}

get_dashboard_data ==
    /\ http = NoResponse
    /\ \E r \in ReadRoutes :
          http' = [NoResponse EXCEPT !.route = r, !.code = 200, !.status = "ok",
                                     !.last_update = IF r = "/api/dashboard"
                                                     THEN web_data.last_update ELSE NoTime]
    /\ UNCHANGED <<mainstate, pg, rlvars>>

\* deepseekok2.test_ai_connection: the call to the model answers (ok) or not
test_ai_connection(ok) ==
    [web_data EXCEPT !.ai_model_info = [status |-> IF ok THEN "connected" ELSE "error",
                                        last_check |-> now]]

\* the route /api/test_ai, whose handler bears the name of the function it calls
api_test_ai ==
    /\ http = NoResponse
    /\ \E ok \in BOOLEAN :
          /\ web_data' = test_ai_connection(ok)
          /\ http' = [NoResponse EXCEPT !.route = "/api/test_ai", !.code = 200,
                                        !.status = web_data'.ai_model_info.status]
    /\ UNCHANGED <<now, TRADE_CONFIG, exchPos, position_cache, lastOrder, posFetch,
                   exchange, position, th, hm, horizon, signal_history, pg, rlvars>>

TimedOutBug(last_update, time_diff2) ==
    last_update # NoTime /\ time_diff2 >= 2 * max_no_response

\* 'if last_update:' and 'if time_diff > max_no_response:', in half seconds
TimedOut(last_update, time_diff2) ==
    last_update # NoTime /\ time_diff2 > 2 * max_no_response

\* the route /api/health. last_update was printed with %S and holds whole
\* seconds; datetime.now() holds a fraction of a second, here none or a half
health_check ==
    /\ http = NoResponse
    /\ \E half \in {0, 1} :
          LET last_update == web_data.last_update
              time_diff2  == 2 * (now - last_update) + half   \* in half seconds
          IN  http' = IF TimedOut(last_update, time_diff2)
                      THEN [route |-> "/api/health", code |-> 503, status |-> "unhealthy",
                            reason |-> time_diff2 \div 2, last_update |-> last_update,
                            half |-> half]
                      ELSE [route |-> "/api/health", code |-> 200, status |-> "healthy",
                            reason |-> NoReason, last_update |-> last_update,
                            half |-> half]
    /\ UNCHANGED <<mainstate, pg, rlvars>>

\* the answer leaves the process
Respond ==
    /\ http # NoResponse
    /\ http' = NoResponse
    /\ UNCHANGED <<mainstate, pg, rlvars>>

\* a second passes while every thread sleeps and no request is being served
SecondPasses ==
    /\ http = NoResponse
    /\ \A w \in WakeTimes : w > now
    /\ now < horizon
    /\ now' = now + 1
    /\ UNCHANGED <<TRADE_CONFIG, exchPos, position_cache, web_data, lastOrder, posFetch,
                   exchange, position, th, hm, horizon, signal_history, gvars, rlvars>>

\* ------------------------------------------------- monitor and cycles
\* the monitor and the scheduler threads around the first boundary
InitHealth == StartAt(TRUE, BootHealth, MaxTimeHealth, MaxThreads)

NextHealth ==
    \/ \E t \in ThreadIds : RunSetup(t)
    \/ \E t \in ThreadIds : LoopTop(t)
    \/ \E t \in ThreadIds : trading_bot(t)
    \/ \E t \in ThreadIds : Except(t)
    \/ \E t \in ThreadIds : Done(t)
    \/ HealthCheck
    \/ health_check
    \/ Respond
    \/ Advance

SpecHealth == InitHealth /\ [][NextHealth]_vars

\* ------------------------------------------------- the routes and a cycle
\* the engine with the account flat, nothing cached and no order sent
EngineServing ==
    /\ TRADE_CONFIG = [margin_usdt |-> 120, leverage |-> Leverage,
                       position_usdt |-> 120 * Leverage, test_mode |-> FALSE,
                       timeframe |-> "15m"]
    /\ exchPos = [x \in Sides |-> Zero]
    /\ position_cache = [data |-> NoPosition, timestamp |-> NoTime]
    /\ lastOrder = NoOrder
    /\ posFetch = [time |-> NoTime, use_cache |-> FALSE, ok |-> FALSE]
    /\ exchange = "okx"
    /\ position = NoPosition
    /\ signal_history = <<>>
    /\ hm = [pc |-> "off", wake |-> 0, restart_count |-> 0, stale_at |-> NoTime]
    /\ http = NoResponse

\* the engine as imported, before main: nothing of it runs
EngineIdle ==
    /\ EngineServing
    /\ pg = NoGuardian
    /\ now = 0 /\ horizon = 0
    /\ web_data = [trade_history |-> <<>>, current_position |-> NoPosition,
                   last_update |-> NoTime,
                   ai_model_info |-> [status |-> "unknown", last_check |-> NoTime]]
    /\ th = [t \in 1..MaxThreads |-> NoThread]

\* how long ago main ran initialize_data and started the threads
Uptimes == {290, 390}

\* the web server and one scheduler thread around a boundary, the account
\* flat: main ran some minutes ago, initialize_data set last_update or failed
\* to, and the thread waits in wait_for_next_period
InitRoutes ==
    /\ EngineServing /\ LimiterConstructed(0)
    /\ pg = NoGuardian
    /\ now = RoutesFrom /\ horizon = MaxTimeRoutes
    /\ \E up \in Uptimes : \E lu \in {NoTime, RoutesFrom - up} :
          web_data = [trade_history |-> <<>>, current_position |-> NoPosition,
                      last_update |-> lu,
                      ai_model_info |-> [status |-> "connected",
                                         last_check |-> RoutesFrom - up]]
    /\ th = [t \in 1..MaxThreads |->
                IF t = 1 THEN [NoThread EXCEPT !.pc = "ohlcv",
                                               !.wake = NextBoundary(RoutesFrom)]
                ELSE NoThread]

NextRoutes ==
    \/ \E t \in ThreadIds : trading_bot(t)
    \/ \E t \in ThreadIds : Except(t)
    \/ \E t \in ThreadIds : Done(t)
    \/ get_dashboard_data
    \/ api_test_ai
    \/ health_check
    \/ Respond
    \/ SecondPasses

SpecRoutes == InitRoutes /\ [][NextRoutes]_vars

\* -------------------------------------------------- process_guardian.py
\* is_process_alive: a handle, and the process behind it runs
is_process_alive(g) == g.process # "None" /\ g.worker = "running"

\* start_process at time t: Popen returns (ok) or raises
start_process(g, ok, t) ==
    IF ok THEN [g EXCEPT !.process = "Popen", !.worker = "running",
                         !.last_restart_time = t]
    ELSE g

\* stop_process ends in one of three ways when the worker runs: the worker
\* exits within the 10 s of wait(timeout=10), or it does not and is killed,
\* or KeyboardInterrupt is raised inside wait (a BaseException, which
\* 'except Exception' lets through) after terminate() was sent. Without a
\* handle it returns at once; on a worker that has exited wait returns at once
StopWays(g) ==
    IF is_process_alive(g) THEN {"graceful", "killed", "interrupted"} ELSE {"graceful"}

\* the handle is None in every case ('finally')
stop_process(g, how) ==
    IF g.process = "None" THEN g
    ELSE [g EXCEPT !.process = "None",
                   !.worker = IF how = "interrupted" THEN @ ELSE "exited"]

StopTime(how) == IF how = "killed" THEN 10 ELSE 0

BudgetSpentBug(g) == g.restart_count > guardian_max_restarts

\* 'if self.restart_count >= self.max_restarts'
BudgetSpent(g) == g.restart_count >= guardian_max_restarts

\* the loop is left: run calls stop_process and returns. KeyboardInterrupt
\* inside that stop_process leaves run through the exception
Leave(g, why, how) ==
    [stop_process(g, how) EXCEPT !.pc = "stopped", !.cause = why]

\* restart_process, then what run does with its result. giveup tells
\* whether run leaves the loop when the start fails. KeyboardInterrupt
\* raised inside restart_process is caught by run, which leaves the loop
restart_process(g, how, ok, giveup, why) ==
    LET counted == [g EXCEPT !.restart_count = @ + 1]
        stopped == stop_process(counted, how)
        t       == now + StopTime(how) + 5
        started == start_process(stopped, ok, t)
    IN  IF how = "interrupted"
        THEN Leave(stopped, "interrupt", "graceful")
        ELSE IF ok
        THEN [started EXCEPT !.consecutive_failures = 0, !.failed_health = 0,
                             !.failed_restarts = 0,
                             !.wake = t + 15 + guardian_check_interval]
        ELSE LET failed == [started EXCEPT !.failed_restarts = @ + 1,
                                           !.failed_health = 0]
             IN  IF giveup
                 THEN Leave(failed, why, "graceful")
                 ELSE [failed EXCEPT !.wake = t + guardian_check_interval]

\* check_health: GET /api/dashboard is answered with 200 or not (any other
\* status, no answer within 10 s, no connection); an answer whose
\* last_update is older than max_no_response fails the check as well
check_health(answered) ==
    /\ answered
    /\ ~(/\ web_data.last_update # NoTime
         /\ now - web_data.last_update > guardian_max_no_response)

FailedEnoughBug(g) == g.consecutive_failures >= 2

\* 'if consecutive_failures >= 3' of the health branch
FailedEnough(g) == g.consecutive_failures >= 3

\* run: the initial start and the wait for the service
GuardStart ==
    /\ pg.pc = "run" /\ pg.wake <= now
    /\ \E ok \in BOOLEAN :
          pg' = IF ok
                THEN [start_process(pg, TRUE, now) EXCEPT !.pc = "boot", !.wake = now + 15]
                ELSE [pg EXCEPT !.pc = "stopped", !.cause = "start failed"]
    /\ UNCHANGED <<mainstate, http, rlvars>>

\* run enters its loop and sleeps check_interval
GuardLoop ==
    /\ pg.pc = "boot" /\ pg.wake <= now
    /\ pg' = [pg EXCEPT !.pc = "sleep", !.wake = now + guardian_check_interval]
    /\ UNCHANGED <<mainstate, http, rlvars>>

\* one pass of the loop body after the sleep
GuardCheck ==
    /\ pg.pc = "sleep" /\ pg.wake <= now
    /\ IF ~is_process_alive(pg)
       THEN LET g == [pg EXCEPT !.seen = "dead", !.consecutive_failures = @ + 1]
            IN  IF BudgetSpent(g)
                THEN \E how \in StopWays(g) : pg' = Leave(g, "budget", how)
                ELSE \E how \in StopWays(g), ok \in BOOLEAN :
                        \* a failed start is counted on top of the dead check
                        LET r == restart_process(g, how, ok,
                                                 g.consecutive_failures + 1 >= 3,
                                                 "restart failures")
                        IN  pg' = IF ~ok
                                  THEN [r EXCEPT !.consecutive_failures = @ + 1]
                                  ELSE r
       ELSE \E answered \in BOOLEAN :
               IF ~check_health(answered)
               THEN LET g == [pg EXCEPT !.seen = "unhealthy",
                                        !.consecutive_failures = @ + 1,
                                        !.failed_health = @ + 1]
                    IN  IF FailedEnough(g)
                        THEN IF BudgetSpent(g)
                             THEN \E how \in StopWays(g) : pg' = Leave(g, "budget", how)
                             ELSE \E how \in StopWays(g), ok \in BOOLEAN :
                                     pg' = restart_process(g, how, ok, TRUE,
                                                           "restart failed")
                        ELSE pg' = [g EXCEPT !.wake = now + guardian_check_interval]
               ELSE pg' = [pg EXCEPT !.seen = "healthy",
                                     !.consecutive_failures = 0,
                                     !.failed_health = 0,
                                     !.restart_count =
                                        IF /\ pg.last_restart_time # NoTime
                                           /\ now - pg.last_restart_time > 3600
                                        THEN 0 ELSE @,
                                     !.wake = now + guardian_check_interval]
    /\ UNCHANGED <<mainstate, http, rlvars>>

\* SIGINT while run sleeps: in the loop 'except KeyboardInterrupt: break';
\* in the wait before the loop the exception leaves run
GuardInterrupt ==
    /\ \/ /\ pg.pc = "sleep"
          /\ \E how \in StopWays(pg) :
                pg' = Leave([pg EXCEPT !.seen = "interrupt"], "interrupt", how)
       \/ /\ pg.pc = "boot"
          /\ pg' = [pg EXCEPT !.pc = "stopped", !.seen = "interrupt",
                              !.cause = "interrupt before the loop"]
    /\ UNCHANGED <<mainstate, http, rlvars>>

\* the worker process exits on its own
WorkerExits ==
    /\ pg.pc \in {"boot", "sleep"} /\ pg.worker = "running"
    /\ pg' = [pg EXCEPT !.worker = "exited"]
    /\ UNCHANGED <<mainstate, http, rlvars>>

\* python process_guardian.py: main builds the guardian and calls run
InitGuardian ==
    /\ EngineServing /\ LimiterConstructed(0)
    /\ now = 0 /\ horizon = MaxTimeGuardian
    /\ web_data = [trade_history |-> <<>>, current_position |-> NoPosition,
                   last_update |-> NoTime,
                   ai_model_info |-> [status |-> "unknown", last_check |-> NoTime]]
    /\ th = [t \in 1..MaxThreads |-> NoThread]
    /\ pg = [NoGuardian EXCEPT !.pc = "run"]

NextGuardian ==
    \/ GuardStart
    \/ GuardLoop
    \/ GuardCheck
    \/ GuardInterrupt
    \/ WorkerExits
    \/ Advance

SpecGuardian == InitGuardian /\ [][NextGuardian]_vars

\* the guardian near the end of an hour without incident: the worker died
\* before each of the first k checks and was restarted at once (every
\* restart takes 5 s, the wait after it 15 s), and has answered every check
\* since; the next check is due
InitGuardianHour ==
    /\ EngineServing /\ LimiterConstructed(0)
    /\ web_data = [trade_history |-> <<>>, current_position |-> NoPosition,
                   last_update |-> NoTime,
                   ai_model_info |-> [status |-> "unknown", last_check |-> NoTime]]
    /\ th = [t \in 1..MaxThreads |-> NoThread]
    /\ \E k \in 0..guardian_max_restarts :
          LET last == k * (guardian_check_interval + 5 + 15)
              due  == last + 15 + guardian_check_interval
                           + HealthyChecks * guardian_check_interval
          IN  /\ now = due
              /\ horizon = due + HourWindow
              /\ pg = [NoGuardian EXCEPT !.pc = "sleep", !.wake = due,
                                         !.process = "Popen", !.worker = "running",
                                         !.restart_count = k,
                                         !.last_restart_time = last,
                                         !.seen = "healthy"]

NextGuardianHour ==
    \/ GuardCheck
    \/ GuardInterrupt
    \/ WorkerExits
    \/ Advance

SpecGuardianHour == InitGuardianHour /\ [][NextGuardianHour]_vars

\* ------------------------------------------------------- rate_limiter.py
\* the decorated functions of deepseekok2.py, by __name__
Endpoints == {"_fetch_ohlcv_from_exchange", "_fetch_positions_from_exchange"}

\* 'balance', 'position', 'order' or 'trade' in the name selects the private bucket
get_bucket_type(endpoint) ==
    IF endpoint \in {"_fetch_positions_from_exchange", "_fetch_balance_from_exchange"}
    THEN "private" ELSE "public"

\* how a call of the wrapped function ends: it returns, or it raises with a
\* message carrying 429, 50001, the words "rate limit" alone, or none of
\* these (a connection error, a timeout)
Outcomes == {"ok", "429", "50001", "rate limit", "network"}

\* the keyword test of adaptive_request's except branch
IsRateLimitError(error) == error \in {"429", "50001", "rate limit"}

\* handle_rate_limit_error: seconds to wait
handle_rate_limit_error(error) ==
    IF error = "429" THEN 60
    ELSE IF error = "50001" THEN 2
    ELSE IF base_delay * backoff_factor < max_delay THEN base_delay * backoff_factor
    ELSE max_delay

RMin(a, b) == IF RLt(b, a) THEN b ELSE a

\* the tokens a bucket holds at time t, before any is taken
Refilled(b, t) ==
    RMin(<<capacity(b), 1>>,
         RAdd(buckets[b].tokens,
              Rat((t - buckets[b].last_refill) * refill_rate(b), TicksPerSecond)))

\* wait_time = (tokens - self.tokens) / self.refill_rate, in ticks
WaitTicks(b, n, have) ==
    LET w == RDiv(RMul(RSubSat(<<n, 1>>, have), <<TicksPerSecond, 1>>), <<refill_rate(b), 1>>)
    IN  (w[1] + w[2] - 1) \div w[2]

SetCaller(c, r) == callers' = [callers EXCEPT ![c] = r]

CallerReady(c) == callers[c].wake <= rl_now

Granted(b) == IF b = "private" THEN Append(grants, rl_now) ELSE grants

\* a thread calls adaptive_request(func)
Request(c) ==
    /\ CallerReady(c) /\ callers[c].pc = "idle" /\ callers[c].left > 0
    /\ \E ep \in Endpoints :
          SetCaller(c, [NoCaller EXCEPT !.pc = "token", !.via = "adaptive_request",
                                        !.endpoint = ep,
                                        !.wake = callers[c].wake,
                                        !.left = callers[c].left - 1])
    /\ UNCHANGED <<rl_now, buckets, request_stats, grants, func_calls>>
    /\ UNCHANGED mainvars

\* a thread calls rate_limiter.wait_for_token(endpoint) for a private endpoint
WaitForToken(c) ==
    /\ CallerReady(c) /\ callers[c].pc = "idle" /\ callers[c].left > 0
    /\ SetCaller(c, [NoCaller EXCEPT !.pc = "token", !.via = "wait_for_token",
                                     !.endpoint = "_fetch_positions_from_exchange",
                                     !.wake = callers[c].wake,
                                     !.left = callers[c].left - 1])
    /\ UNCHANGED <<rl_now, buckets, request_stats, grants, func_calls>>
    /\ UNCHANGED mainvars

\* between two calls a thread may do something else for a tenth of a second
Pause(c) ==
    /\ CallerReady(c) /\ callers[c].pc = "idle" /\ callers[c].left > 0
    /\ callers[c].outcome = "returned"
    /\ SetCaller(c, [callers[c] EXCEPT !.wake = rl_now + 1, !.outcome = "none"])
    /\ UNCHANGED <<rl_now, buckets, request_stats, grants, func_calls>>
    /\ UNCHANGED mainvars

\* consume returned True: adaptive_request goes on to count the request
AfterToken(r) ==
    IF r.via = "wait_for_token" THEN [r EXCEPT !.pc = "idle", !.outcome = "returned"]
    ELSE [r EXCEPT !.pc = "load", !.counter = "total_requests", !.after = "call"]

\* wait_for_token: TokenBucket.consume(1) once the bucket's lock is free;
\* with too few tokens the thread sleeps inside the lock
Consume(c) ==
    /\ CallerReady(c) /\ callers[c].pc = "token"
    /\ LET b == get_bucket_type(callers[c].endpoint)
           have == Refilled(b, rl_now)
       IN  /\ buckets[b].lock = 0
           /\ IF ~RLt(have, <<1, 1>>)
              THEN /\ buckets' = [buckets EXCEPT ![b] =
                                    [tokens |-> RSubSat(have, <<1, 1>>),
                                     last_refill |-> rl_now, lock |-> 0]]
                   /\ grants' = Granted(b)
                   /\ SetCaller(c, AfterToken(callers[c]))
              ELSE /\ buckets' = [buckets EXCEPT ![b] =
                                    [tokens |-> have, last_refill |-> rl_now, lock |-> c]]
                   /\ UNCHANGED grants
                   /\ SetCaller(c, [callers[c] EXCEPT !.pc = "token_sleep",
                                       !.wake = rl_now + WaitTicks(b, 1, have)])
    /\ UNCHANGED <<rl_now, request_stats, func_calls>>
    /\ UNCHANGED mainvars

\* the sleep inside consume is over: self.tokens = 0, return True
ConsumeWake(c) ==
    /\ CallerReady(c) /\ callers[c].pc = "token_sleep"
    /\ LET b == get_bucket_type(callers[c].endpoint)
       IN  /\ buckets' = [buckets EXCEPT ![b].tokens = Zero, ![b].lock = 0]
           /\ grants' = Granted(b)
    /\ SetCaller(c, AfterToken(callers[c]))
    /\ UNCHANGED <<rl_now, request_stats, func_calls>>
    /\ UNCHANGED mainvars

\* request_stats[k] += 1 reads the counter ...
Load(c) ==
    /\ CallerReady(c) /\ callers[c].pc = "load"
    /\ SetCaller(c, [callers[c] EXCEPT !.pc = "store",
                                       !.tmp = request_stats[callers[c].counter]])
    /\ UNCHANGED <<rl_now, buckets, request_stats, grants, func_calls>>
    /\ UNCHANGED mainvars

\* the loop allows one attempt more than max_retries
AfterStoreBug(r) ==
    IF r.after = "call" THEN [r EXCEPT !.pc = "call"]
    ELSE IF r.after = "return" THEN [r EXCEPT !.pc = "idle", !.outcome = "returned"]
    ELSE IF r.retry_count < max_retries + 1
         THEN [r EXCEPT !.pc = "token",
                        !.wake = rl_now + handle_rate_limit_error(r.error) * TicksPerSecond]
         ELSE [r EXCEPT !.pc = "idle", !.outcome = "raised"]

\* the statements that follow an increment
AfterStore(r) ==
    IF r.after = "call" THEN [r EXCEPT !.pc = "call"]
    ELSE IF r.after = "return" THEN [r EXCEPT !.pc = "idle", !.outcome = "returned"]
    ELSE \* handle_rate_limit_error returned the wait time
         IF r.retry_count < max_retries
         THEN [r EXCEPT !.pc = "token",
                        !.wake = rl_now + handle_rate_limit_error(r.error) * TicksPerSecond]
         ELSE [r EXCEPT !.pc = "idle", !.outcome = "raised"]

\* ... and stores the value read plus one; no lock is held in between
Store(c) ==
    /\ CallerReady(c) /\ callers[c].pc = "store"
    /\ request_stats' = [request_stats EXCEPT ![callers[c].counter] = callers[c].tmp + 1]
    /\ SetCaller(c, AfterStore(callers[c]))
    /\ UNCHANGED <<rl_now, buckets, grants, func_calls>>
    /\ UNCHANGED mainvars

\* the errors adaptive_request handles by waiting and trying again
Retried(error) == IsRateLimitError(error)

\* result = func(*args, **kwargs), and the except branch when it raises
Call(c) ==
    /\ CallerReady(c) /\ callers[c].pc = "call"
    /\ func_calls' = func_calls + 1
    /\ \E o \in Outcomes :
          LET r == [callers[c] EXCEPT !.attempts = @ + 1]
          IN  IF o = "ok"
              THEN SetCaller(c, [r EXCEPT !.pc = "load", !.counter = "successful_requests",
                                          !.after = "return"])
              ELSE IF Retried(o)
              THEN SetCaller(c, [r EXCEPT !.pc = "load", !.retry_count = @ + 1,
                                          !.error = o,
                                          !.counter = "rate_limited_requests",
                                          !.after = "retry"])
              ELSE SetCaller(c, [r EXCEPT !.pc = "idle", !.retry_count = @ + 1,
                                          !.error = o, !.outcome = "raised"])
    /\ UNCHANGED <<rl_now, buckets, request_stats, grants>>
    /\ UNCHANGED mainvars

\* a thread that cannot take a step now: it sleeps, it waits for a bucket
\* lock, or it has made all its requests
Sleeping(c) == callers[c].wake > rl_now
Blocked(c) ==
    callers[c].pc = "token" /\ buckets[get_bucket_type(callers[c].endpoint)].lock # 0
Finished(c) == callers[c].pc = "idle" /\ callers[c].left = 0

\* the limiter's clock moves to the first wake-up
Tick ==
    /\ \A c \in Callers : Sleeping(c) \/ Blocked(c) \/ Finished(c)
    /\ \E c \in Callers : Sleeping(c)
    /\ LET wakes == {callers[c].wake : c \in {x \in Callers : Sleeping(x)}}
       IN  rl_now' = CHOOSE w \in wakes : \A v \in wakes : w <= v
    /\ UNCHANGED <<buckets, request_stats, callers, grants, func_calls>>
    /\ UNCHANGED mainvars

\* the statistics have just been reset and the private bucket has just been
\* emptied by the position and balance queries of a cycle
InitLimiter == LimiterState(MaxRequests, 0, Callers) /\ EngineIdle

NextLimiter ==
    \/ \E c \in Callers : Request(c)
    \/ \E c \in Callers : Consume(c)
    \/ \E c \in Callers : ConsumeWake(c)
    \/ \E c \in Callers : Load(c)
    \/ \E c \in Callers : Store(c)
    \/ \E c \in Callers : Call(c)
    \/ Tick

\* threads calling the decorated functions at the same time
SpecLimiter == InitLimiter /\ [][NextLimiter]_vars

\* one thread calling the decorated functions, one call after the other; a
\* thread that can run eventually does
InitSerial == LimiterState(MaxSerial, 0, {1}) /\ EngineIdle

SpecSerial == InitSerial /\ [][NextLimiter]_vars /\ WF_vars(NextLimiter)

\* threads that only take tokens of the private bucket, one after another
InitBucket == LimiterConstructed(MaxConsumes) /\ EngineIdle

NextBucket ==
    \/ \E c \in Callers : WaitForToken(c)
    \/ \E c \in Callers : Pause(c)
    \/ \E c \in Callers : Consume(c)
    \/ \E c \in Callers : ConsumeWake(c)
    \/ Tick

SpecBucket == InitBucket /\ [][NextBucket]_vars

\* ================================================================ claims
\* the program counters inside execute_trade, and those from which an
\* order has been or is about to be sent
TradePcs == {"trade_check", "trade_size", "trade_order", "trade_reread", "trade_stops"}
OrderPcs == {"trade_order", "trade_reread", "trade_stops"}
PipelinePcs == {"analyze_pos", "analyze_ai", "update"} \cup TradePcs

\* C1: no opening market order reaches the exchange while the account
\* holds a non-zero position for the symbol.
C1_NoOpenWhileHeld == ~(lastOrder.kind = "open" /\ lastOrder.held)

\* C2: at most one run_trading_bot thread is live at any time, also after
\* the health monitor has restarted the trading loop.
C2_SingleScheduler == Cardinality({t \in Threads : Alive(t)}) <= 1

\* C3: in a cycle whose position read returned a position, the decision
\* pipeline is not invoked and execute_trade is not entered; the cycle ends
\* after the close check and the close execution.
C3_CycleEndsAfterClose ==
    \A t \in Threads :
        Truthy(th[t].current_position) =>
            /\ th[t].pc \notin PipelinePcs
            /\ th[t].signal_data = NoSignal

\* C3 witness: a cycle that read a position, sent its close order, verified
\* it and ended.
C3_Witness ==
    \E t \in Threads :
        /\ th[t].pc = "done"
        /\ Truthy(th[t].current_position)
        /\ th[t].log = "close verified"

\* C4: the result of execute_close_position after its order and the
\* settlement wait is True exactly when no position remains on the exchange.
C4_CloseResultAgrees ==
    [][\A t \in Threads :
          (th[t].pc = "close_verify" /\ th'[t].pc = "done")
             => ((th'[t].close_ok = "true") <=> Flat)]_vars

\* C5: the position that sizes and directs the close order is the
\* position the exchange holds when execute_close_position queries it.
C5_CloseUsesLivePosition ==
    [][\A t \in Threads :
          (th[t].pc = "close_fetch" /\ th'[t].pc = "close_order")
             => th'[t].latest_position \in ExchangeViews]_vars

\* C6: two position fetches issued by use_cache=True calls, the first of
\* which was answered, are at least the TTL apart.
C6_OneFetchPerTTL ==
    [][(/\ posFetch' # posFetch
        /\ posFetch'.use_cache
        /\ posFetch.use_cache /\ posFetch.ok)
          => posFetch'.time - posFetch.time >= ttl]_vars

\* C7: when the position query raises and the cache holds a position,
\* the call returns the cached position and leaves the cache entry and its
\* timestamp as they were (at the three call sites that keep the result).
C7_StaleFallbackOnError ==
    [][\A t \in Threads :
          (/\ th[t].pc \in {"position", "close_fetch", "trade_reread"}
           /\ th'[t].pc # th[t].pc
           /\ th'[t].read = "raised"
           /\ Truthy(position_cache.data))
             => /\ position_cache' = position_cache
                /\ th[t].pc = "position" => th'[t].current_position = position_cache.data
                /\ th[t].pc = "close_fetch" => th'[t].latest_position = position_cache.data
                /\ th[t].pc = "trade_reread" => position' = position_cache.data]_vars

\* C7 witness: the cycle's position read raised, the cache held a position,
\* and the cycle went on with that position.
C7_Witness ==
    \E t \in Threads :
        /\ th[t].pc = "close_check"
        /\ th[t].read = "raised"
        /\ Truthy(th[t].current_position)
        /\ th[t].current_position = position_cache.data

\* C8: with confidence LOW outside test mode execute_trade never gets past
\* its confidence check: it reaches none of the steps that fetch the balance,
\* send an order or append a trade record.
C8_LowConfidenceNoOp ==
    \A t \in Threads :
        (th[t].signal_data.confidence = "LOW" /\ ~TRADE_CONFIG.test_mode)
            => th[t].pc \notin (TradePcs \ {"trade_check"})

\* C8 witness: execute_trade returned at the confidence check for an
\* opening signal, with the account seen flat.
C8_Witness ==
    \E t \in Threads :
        /\ th[t].pc = "done"
        /\ th[t].log = "low confidence"
        /\ th[t].signal_data.signal \in {"BUY", "SELL"}
        /\ ~TRADE_CONFIG.test_mode

\* C9: in test mode no order call of any kind reaches the exchange.
C9_NoOrdersInTestMode == TRADE_CONFIG.test_mode => lastOrder = NoOrder

\* C10: execute_trade is at or past its order step only if the margin
\* recomputed for the clamped quantity is at most 80% of the free balance it
\* read; otherwise it has returned without an order or a trade record.
C10_MarginWithinShare ==
    \A t \in Threads :
        th[t].pc \in OrderPcs =>
            /\ th[t].margin_usdt = Sizing(th[t].price_data).margin_usdt
            /\ 10 * th[t].margin_usdt[1] * th[t].usdt_balance[2]
                  <= 8 * th[t].usdt_balance[1] * th[t].margin_usdt[2]

\* C10 witness: an order was sent for a quantity clamped up to the minimum,
\* whose margin is above the configured one.
C10_Witness ==
    \E t \in Threads :
        /\ th[t].pc = "trade_reread"
        /\ RGt(th[t].margin_usdt, <<TRADE_CONFIG.margin_usdt, 1>>)

\* the sizing of the claim, in integers: q = n/d is the larger of M*L/P and
\* 1/100; a clamped q goes with margin q*P/L and notional q*P, an unclamped
\* one with the configured margin M and notional M*L
SizedAsClaimed(q, margin, notional, M, L, P) ==
    /\ 100 * q[1] >= q[2]
    /\ q[1] * P >= M * L * q[2]
    /\ (100 * q[1] = q[2]) \/ (q[1] * P = M * L * q[2])
    /\ IF 100 * M * L < P
       THEN /\ margin[1] * L * q[2] = margin[2] * q[1] * P
            /\ notional[1] * q[2] = notional[2] * q[1] * P
       ELSE /\ margin = <<M, 1>>
            /\ notional = <<M * L, 1>>
    /\ (M = 10 /\ L = 10 /\ P = 50000) => (q = <<1, 100>> /\ margin = <<50, 1>>)
    /\ (M = 120 /\ L = 10 /\ P = 50000) => q = <<3, 125>>

\* C11: the quantity is max(margin*leverage/price, minimum order size); a
\* clamped quantity goes with margin quantity*price/leverage and notional
\* quantity*price, an unclamped one with the configured margin and
\* margin*leverage; these are the values of the affordability check and of
\* the trade record.
C11_SizingClamped ==
    /\ \A t \in Threads :
          (th[t].pc \in OrderPcs \/ th[t].log = "insufficient margin")
             => SizedAsClaimed(th[t].base_amount, th[t].margin_usdt, th[t].position_usdt,
                               TRADE_CONFIG.margin_usdt, TRADE_CONFIG.leverage,
                               th[t].price_data)
    /\ \A i \in 1..Len(web_data.trade_history) :
          LET rec == web_data.trade_history[i]
          IN  SizedAsClaimed(IF 100 * TRADE_CONFIG.margin_usdt * TRADE_CONFIG.leverage
                                    < rec.price
                                 THEN <<1, 100>>
                                 ELSE Rat(TRADE_CONFIG.margin_usdt * TRADE_CONFIG.leverage,
                                          rec.price),
                             rec.margin_usdt,
                             rec.position_usdt, TRADE_CONFIG.margin_usdt,
                             TRADE_CONFIG.leverage, rec.price)

\* C11 witness: a trade was recorded for a quantity clamped to 0.01 with
\* the margin recomputed to 50.
C11_Witness ==
    \E t \in Threads :
        /\ th[t].pc = "done" /\ th[t].log = "traded"
        /\ th[t].base_amount = MIN_ORDER_SIZE
        /\ web_data.trade_history[Len(web_data.trade_history)].margin_usdt = <<50, 1>>

\* C12: the amount of every opening market order is the sized quantity
\* divided by the contract multiplier of the market, whatever the market
\* lookup did.
C12_AmountInContracts ==
    \A t \in Threads :
        th[t].pc \in {"trade_reread", "trade_stops"} =>
            th[t].btc_amount[1] * ContractSize[1] * th[t].base_amount[2]
                = th[t].base_amount[1] * th[t].btc_amount[2] * ContractSize[2]

\* C13: an execute_trade call sends at most one market order; a BUY is
\* sent as side buy with posSide long, a SELL as side sell with posSide
\* short, and any other signal sends nothing.
C13_OneOrderMatchingSignal ==
    [][\A t \in Threads :
          /\ th'[t].market_orders <= 1
          /\ (th[t].pc \in TradePcs /\ th[t].pc # "trade_order")
                => (th'[t].pc \in TradePcs => th'[t].market_orders = th[t].market_orders)
          /\ (th[t].pc = "trade_order" /\ th'[t] # th[t])
                => LET signal == th[t].signal_data.signal
                   IN  IF signal = "BUY"
                       THEN /\ th'[t].market_orders = 1
                            /\ lastOrder'.kind = "open"
                            /\ lastOrder'.side = "buy" /\ lastOrder'.posSide = "long"
                       ELSE IF signal = "SELL"
                       THEN /\ th'[t].market_orders = 1
                            /\ lastOrder'.kind = "open"
                            /\ lastOrder'.side = "sell" /\ lastOrder'.posSide = "short"
                       ELSE /\ th'[t].market_orders = 0
                            /\ lastOrder' = lastOrder /\ exchPos' = exchPos]_vars

\* C13 witness: a SELL was sent as a sell order tagged short, the one
\* market order of the call.
C13_Witness ==
    \E t \in Threads :
        /\ th[t].pc = "trade_reread"
        /\ th[t].signal_data.signal = "SELL"
        /\ th[t].market_orders = 1
        /\ lastOrder.kind = "open" /\ lastOrder.side = "sell" /\ lastOrder.posSide = "short"

\* C14: once the opening order call has returned, the call appends exactly
\* one trade record, at its end, whether the protective orders were placed,
\* failed or were skipped; when the order call raises, the call ends without
\* a record.
C14_OneRecordPerOrder ==
    [][\A t \in Threads :
          LET h == web_data.trade_history
              h2 == web_data'.trade_history
          IN  /\ (th[t].pc \in TradePcs /\ th[t].pc # "trade_stops") => h2 = h
              /\ (th[t].pc = "trade_order" /\ th'[t] # th[t])
                    => IF lastOrder'.kind = "open" /\ lastOrder'.ok
                          /\ th'[t].market_orders = 1
                       THEN th'[t].pc = "trade_reread"
                       ELSE th'[t].pc = "done"
              /\ (th[t].pc = "trade_reread" /\ th'[t] # th[t])
                    => th'[t].pc = "trade_stops"
              /\ (th[t].pc = "trade_stops" /\ th'[t] # th[t])
                    => /\ th'[t].pc = "done"
                       /\ Len(h2) = Len(h) + 1
                       /\ \A i \in 1..Len(h) : h2[i] = h[i]
                       /\ h2[Len(h2)].signal = th[t].signal_data.signal
                       /\ h2[Len(h2)].timestamp = now]_vars

\* C14 witness: a trade whose stop-loss order failed has been recorded.
C14_Witness ==
    \E t \in Threads :
        /\ th[t].pc = "done"
        /\ th[t].stops = "sl_fail"
        /\ lastOrder.kind = "stop" /\ ~lastOrder.ok
        /\ web_data.trade_history # <<>>
        /\ web_data.trade_history[Len(web_data.trade_history)].timestamp = now

\* C15: the signal history never holds more than 30 entries; an insertion
\* into a history of 30 drops the oldest entry and keeps the others in
\* their order, followed by the new one; below 30 nothing is dropped.
C15_SignalHistoryFIFO ==
    [][/\ Len(signal_history') <= 30
       /\ signal_history' # signal_history =>
             LET n == Len(signal_history)
             IN  IF n = 30
                 THEN /\ Len(signal_history') = 30
                      /\ \A i \in 1..29 : signal_history'[i] = signal_history[i + 1]
                      /\ \E t \in Threads :
                            signal_history'[30].timestamp = th[t].price_ts
                 ELSE /\ Len(signal_history') = n + 1
                      /\ \A i \in 1..n : signal_history'[i] = signal_history[i]]_vars

\* C15 witness: the history is full, its oldest entry is gone and its
\* newest entry is the one of the running cycle.
C15_Witness ==
    /\ Len(signal_history) = 30
    /\ signal_history[1].timestamp > Period
    /\ \E t \in Threads :
          /\ th[t].pc = "update"
          /\ signal_history[30].timestamp = th[t].price_ts

\* C16: when the decision pipeline has returned a signal, parsed or
\* fallback, that signal is the newest entry of the signal history.
C16_ReturnedSignalRecorded ==
    \A t \in Threads :
        th[t].pc = "update" =>
            /\ signal_history # <<>>
            /\ signal_history[Len(signal_history)]
                  = HistoryEntry(th[t].signal_data, th[t].price_ts)

\* the fallback signal for price P, field by field
IsFallbackFor(sig, P) ==
    /\ sig.signal = "HOLD" /\ sig.confidence = "LOW" /\ sig.is_fallback
    /\ 100 * sig.stop_loss[1] = 98 * P * sig.stop_loss[2]
    /\ 100 * sig.take_profit[1] = 102 * P * sig.take_profit[2]

\* C17: the pipeline returns either the object of an answer that carried
\* all five required fields, or exactly the fallback for the snapshot price
\* (HOLD, LOW, 0.98*P, 1.02*P, is_fallback); an answer that does not parse
\* or lacks a required field gives the fallback.
C17_ParsedOrFallback ==
    \A t \in Threads :
        th[t].pc = "update" =>
            LET sig == th[t].signal_data
            IN  /\ IF sig.is_fallback
                   THEN IsFallbackFor(sig, th[t].price_data)
                   ELSE /\ th[t].answer = "json"
                        /\ sig \in ParsedSignals(th[t].price_data)
                /\ th[t].answer \in {"nojson", "unparsable", "missing"}
                      => IsFallbackFor(sig, th[t].price_data)

\* C17 witness: an answer that parsed but lacked a required field was
\* replaced by the fallback for the price 50,000.
C17_Witness ==
    \E t \in Threads :
        /\ th[t].pc = "update"
        /\ th[t].answer = "missing"
        /\ th[t].signal_data.is_fallback
        /\ th[t].signal_data.stop_loss = <<49000, 1>>
        /\ th[t].signal_data.take_profit = <<51000, 1>>

\* C18: when the advisory call of a pipeline invocation returned without
\* raising, the service was called exactly once in that invocation, also
\* when the result is the fallback signal.
C18_OneCallWhenAnswered ==
    \A t \in Threads :
        (th[t].pc = "update" /\ th[t].answer \notin {"none", "raise"})
            => th[t].ai_calls = 1

\* C18 witness: the service answered text that does not parse, the
\* pipeline returned the fallback, and the service was called once.
C18_Witness ==
    \E t \in Threads :
        /\ th[t].pc = "update"
        /\ th[t].answer = "unparsable"
        /\ th[t].signal_data.is_fallback
        /\ th[t].ai_calls = 1

\* C19: the service is called at most twice in one pipeline invocation,
\* and the invocation does not return after a raising call unless the
\* service was called a second time.
C19_RetryAfterCallError ==
    \A t \in Threads :
        /\ th[t].ai_calls <= 2
        /\ (th[t].pc = "update" /\ th[t].answer = "raise") => th[t].ai_calls = 2

\* C20: when the newest trade record is a BUY or SELL made less than the
\* minimum hold of the timeframe ago (30 minutes for 15m, 60 for 1h, 240 for
\* 4h), check_close_position returns None and the advisory service is not
\* called.
C20_MinHoldSkipsAdvisory ==
    [][\A t \in Threads :
          LET h == web_data.trade_history
              minutes == CASE TRADE_CONFIG.timeframe = "15m" -> 30
                           [] TRADE_CONFIG.timeframe = "1h" -> 60
                           [] TRADE_CONFIG.timeframe = "4h" -> 240
          IN  (/\ th[t].pc = "close_check" /\ th'[t] # th[t]
               /\ h # <<>>
               /\ h[Len(h)].signal \in {"BUY", "SELL"}
               /\ now - h[Len(h)].timestamp < minutes * 60)
                 => /\ th'[t].pc = "done"
                    /\ th'[t].close_ok = "none"
                    /\ th'[t].ai_calls = th[t].ai_calls
                    /\ lastOrder' = lastOrder]_vars

\* C20 witness: with the 4h timeframe, a cycle that found the position of
\* a SELL recorded a quarter of an hour earlier ended at the hold check
\* without an advisory call.
C20_Witness ==
    \E t \in Threads :
        /\ th[t].pc = "done" /\ th[t].log = "min hold"
        /\ th[t].ai_calls = 0
        /\ TRADE_CONFIG.timeframe = "4h"
        /\ web_data.trade_history # <<>>
        /\ web_data.trade_history[Len(web_data.trade_history)].signal = "SELL"
        /\ now - web_data.trade_history[Len(web_data.trade_history)].timestamp < 240 * 60

\* C21: execute_close_position is entered only in a cycle whose close
\* answer parsed with should_close the boolean true; after any other answer
\* the cycle sends no close order.
C21_CloseOnlyOnTrue ==
    \A t \in Threads :
        th[t].pc \in {"close_fetch", "close_order", "close_verify"}
            => th[t].answer = "true"

\* C22: one adaptive_request call invokes the wrapped function at most 3
\* times; it raises a rate-limit error only after the third attempt; and
\* every call ends, by returning or by raising.
C22_AtMostThreeAttempts ==
    /\ [](\A c \in Callers :
            /\ callers[c].attempts <= 3
            /\ (callers[c].outcome = "raised"
                   /\ callers[c].error \in {"429", "50001", "rate limit"})
                  => (callers[c].attempts = 3 /\ callers[c].retry_count = 3))
    /\ \A c \in Callers :
          (callers[c].pc # "idle")
             ~> (callers[c].pc = "idle" /\ callers[c].outcome \in {"returned", "raised"})

\* C22 witness: three attempts were rate limited and the third error was
\* raised to the caller.
C22_Witness ==
    \E c \in Callers :
        /\ callers[c].pc = "idle" /\ callers[c].outcome = "raised"
        /\ callers[c].attempts = 3
        /\ callers[c].error = "429"
        /\ request_stats.rate_limited_requests >= 1

\* C23: an error of the wrapped call that carries no rate-limit signature (a
\* connection error, a timeout) reaches the caller only after the limiter has
\* retried it up to the attempt ceiling.
C23_NetworkErrorRetried ==
    \A c \in Callers :
        (callers[c].outcome = "raised" /\ callers[c].error = "network")
            => callers[c].attempts = max_retries

\* C24: the private bucket (capacity C, refill rate R) never grants more than
\* C + R*t tokens in a window of length t, and the token count of every
\* bucket stays within [0, C].
C24_BucketBound ==
    /\ \A b \in QuotaClasses :
          /\ ~RLt(buckets[b].tokens, Zero)
          /\ ~RGt(buckets[b].tokens, <<capacity(b), 1>>)
    /\ \A i, j \in 1..Len(grants) :
          i <= j =>
             (j - i + 1) * TicksPerSecond
                <= capacity("private") * TicksPerSecond
                     + refill_rate("private") * (grants[j] - grants[i])

\* C25: no increment of the shared counters is lost when several threads run
\* adaptive_request: once every thread is back, total_requests is the number
\* of calls of the wrapped function that were made, and at every moment
\* successful_requests + rate_limited_requests is at most total_requests.
C25_NoLostIncrement ==
    /\ request_stats.successful_requests + request_stats.rate_limited_requests
           <= request_stats.total_requests
    /\ (\A c \in Callers : callers[c].pc = "idle")
           => request_stats.total_requests = func_calls

\* C26: every order call the exchange receives during a cycle (opening,
\* closing, protective) was issued through the rate limiter.
C26_OrdersThroughLimiter == lastOrder.kind # "none" => lastOrder.limited

\* C27: the step that completes the fifth failing cycle in a row drops the
\* exchange handle and sets the consecutive-failure counter to 0, and a cycle
\* that succeeds sets the counter to 0.
C27_CircuitReset ==
    [][\A t \in Threads :
          /\ (th[t].failed_cycles = max_consecutive_errors - 1
                 /\ th'[t].failed_cycles = max_consecutive_errors)
                => (exchange' = "None" /\ th'[t].consecutive_errors = 0)
          /\ (th[t].pc = "done" /\ ~Failed(th[t]) /\ th'[t].pc = "loop")
                => th'[t].consecutive_errors = 0]_vars

\* C28: once the circuit reset has dropped the exchange handle, the
\* scheduler's re-initialisation (the exchange answering every call) gives it
\* a connector again and a trading cycle starts.
C28_ReconnectsAfterReset ==
    [][\A t \in Threads :
          (exchange = "None" /\ th[t].pc = "loop" /\ th'[t] # th[t])
             => (exchange' = "okx" /\ th'[t].pc = "ohlcv")]_vars

\* C29: at the step that completes the n-th failing cycle in a row the
\* scheduler goes to sleep for min(60*n, 300) seconds.
C29_LinearBackoff ==
    [][\A t \in Threads :
          th'[t].failed_cycles = th[t].failed_cycles + 1
             => th'[t].wake - now = Backoff(th'[t].failed_cycles)]_vars

\* C30: every check of the monitor that finds last_update older than 300 s
\* while fewer than 5 restarts have been made starts a scheduler thread, and
\* once the monitor has stopped no thread is started any more.
C30_RestartsUpToMax ==
    [][/\ (/\ hm.pc = "check" /\ hm' # hm
           /\ web_data.last_update # NoTime
           /\ now - web_data.last_update > max_no_response
           /\ hm.restart_count < max_restarts)
          => \E t \in Threads : ~Alive(t) /\ th'[t].pc = "setup"
       /\ hm.pc = "stopped"
          => \A t \in Threads : th'[t].pc # "off" => Alive(t)]_vars

\* C31: the monitor's restart counter goes back to 0 only when an hour has
\* passed since the last check that found last_update stale; one healthy
\* check after a stale one does not reset it.
C31_ResetAfterAnHour ==
    [][(hm.restart_count > 0 /\ hm'.restart_count = 0)
          => now - hm.stale_at >= 3600]_vars

\* C32: the health endpoint answers 'unhealthy' exactly when the time since
\* last_update, read on the clock of the request, exceeds max_no_response
\* (300 s), and then its reason holds the whole seconds of that time; it
\* answers 'healthy' when the time is at most 300 s or last_update is unset
C32_HealthEndpoint ==
    http.route = "/api/health" =>
        LET age2 == 2 * (now - http.last_update) + http.half
            stale == http.last_update # NoTime /\ age2 > 2 * max_no_response
        IN  /\ http.last_update = web_data.last_update \/ web_data.last_update = now
            /\ http.status \in {"healthy", "unhealthy"}
            /\ http.status = "unhealthy" <=> stale
            /\ stale => http.reason = age2 \div 2 /\ http.code = 503
            /\ ~stale => http.code = 200

C32_Witness ==
    /\ http.route = "/api/health" /\ http.status = "unhealthy"
    /\ now - http.last_update = 400 /\ http.reason = 400

C32_WitnessFresh ==
    /\ http.route = "/api/health" /\ http.status = "healthy"
    /\ now - http.last_update = max_no_response


\* C35: the routes only read the shared state: every step that changes
\* web_data is a step of a scheduler thread, never the handler of a route
C35_RoutesReadOnly ==
    [][web_data' # web_data => \E t \in Threads : th'[t] # th[t]]_vars


\* a pass of the guardian's loop body
CheckStep ==
    /\ pg.pc = "sleep" /\ pg'.seen \in {"dead", "unhealthy", "healthy"}
    /\ pg'.wake # pg.wake \/ pg'.pc # pg.pc
\* restart_process was called in the step
Attempt == pg'.restart_count = pg.restart_count + 1
\* the check of the step found the worker dead
FoundDead == ~is_process_alive(pg)
\* the health check of the step failed and the two before it had failed
ThreeFailed == pg'.seen = "unhealthy" /\ pg.failed_health + 1 >= 3

\* C33, as the claim states it: at a check the guardian restarts the worker
\* exactly when the process is dead or three health checks in a row have
\* failed, and a passing health check sets consecutive_failures to 0
C33_RestartExactlyWhen ==
    [][CheckStep => /\ Attempt <=> (FoundDead \/ ThreeFailed)
                    /\ pg'.seen = "healthy" => pg'.consecutive_failures = 0]_vars

\* C33, amended: at a check the guardian restarts the worker exactly when
\* the process is dead or three health checks in a row have failed and the
\* restart budget is not spent; with a live process fewer than three failed
\* health checks in a row never restart it; a passing health check sets
\* consecutive_failures to 0
C33_RestartWithinBudget ==
    [][CheckStep =>
          /\ Attempt <=> ((FoundDead \/ ThreeFailed) /\ ~BudgetSpent(pg))
          /\ (Attempt /\ ~FoundDead) => pg.failed_health + 1 >= 3
          /\ pg'.seen = "healthy" => pg'.consecutive_failures = 0]_vars

C33_Witness ==
    /\ pg.pc = "sleep" /\ pg.seen = "unhealthy" /\ pg.restart_count = 1
    /\ pg.worker = "running" /\ pg.last_restart_time > 0


\* C34: restart_count never exceeds max_restarts; with restart_count at
\* max_restarts a check that calls for a restart makes none and ends the
\* loop; restart_count goes back to 0 only at a passing health check made
\* more than 3600 s after the last start of the worker
C34_RestartBudget ==
    [][/\ pg'.restart_count <= guardian_max_restarts
       /\ Attempt => pg.restart_count < guardian_max_restarts
       /\ (/\ CheckStep /\ pg.restart_count = guardian_max_restarts
           /\ FoundDead \/ ThreeFailed)
          => pg'.pc = "stopped" /\ pg'.restart_count = pg.restart_count
       /\ (pg.restart_count > 0 /\ pg'.restart_count = 0)
          => /\ CheckStep /\ pg'.seen = "healthy"
             /\ pg.last_restart_time # NoTime
             /\ now - pg.last_restart_time > 3600]_vars

C34_Witness ==
    /\ pg.pc = "stopped" /\ pg.cause = "budget"
    /\ pg.restart_count = guardian_max_restarts

C34_WitnessReset ==
    /\ pg.seen = "healthy" /\ pg.restart_count = 0 /\ pg.last_restart_time > 0
    /\ now - pg.last_restart_time > 3600


\* C38: with the worker dead the guardian gives up over failed restarts only
\* when three restart attempts in a row have failed
C38_ThreeFailedRestarts ==
    (pg.pc = "stopped" /\ pg.cause = "restart failures") => pg.failed_restarts >= 3

\* the ways run leaves its loop
LoopExits == {"budget", "restart failures", "restart failed", "interrupt"}

\* C39: when run has left its loop and returned, the handle is None and no
\* worker is running
C39_NoWorkerLeft ==
    (pg.pc = "stopped" /\ pg.cause \in LoopExits)
        => pg.process = "None" /\ pg.worker # "running"


\* C40: for signal HOLD execute_trade returns without a call to the
\* exchange (no position query, no balance fetch, no order) and leaves the
\* trade history, the position cache and the rate limiter's counters as
\* they were
C40_HoldIsNoOp ==
    [][\A t \in Threads :
          (/\ th[t].pc = "trade_check" /\ th[t].signal_data.signal = "HOLD"
           /\ th'[t] # th[t])
          => /\ th'[t].pc = "done"
             /\ posFetch' = posFetch /\ lastOrder' = lastOrder /\ exchPos' = exchPos
             /\ web_data'.trade_history = web_data.trade_history
             /\ position_cache' = position_cache /\ position' = position
             /\ request_stats' = request_stats /\ buckets' = buckets
             /\ func_calls' = func_calls]_vars

C40_Witness ==
    \E t \in Threads : /\ th[t].pc = "done" /\ th[t].log = "hold"
                       /\ th[t].signal_data.signal = "HOLD"


\* C37: at the end of a cycle in which execute_trade opened a position and
\* its re-read returned it, web_data's current_position is that position;
\* at the end of every later cycle that read the position and kept it,
\* web_data's current_position is a position
C37_PositionShown ==
    \A t \in Threads :
        /\ (th[t].pc = "done" /\ th[t].log = "traded" /\ Truthy(position))
              => web_data.current_position = position
        /\ (/\ th[t].pc = "done" /\ th[t].log \in {"keep holding", "min hold"}
            /\ Truthy(th[t].current_position)
            /\ web_data.trade_history # <<>>)
              => Truthy(web_data.current_position)


\* every scheduler thread sleeps between two cycles and none has met an
\* error, in setup_exchange or in a cycle, since it was started; a boundary
\* has passed
CyclesComplete ==
    /\ now >= Period
    /\ \E t \in Threads : Alive(t)
    /\ \A t \in Threads :
          Alive(t) => /\ th[t].pc \in {"loop", "ohlcv"} /\ th[t].wake > now
                      /\ th[t].failed_cycles = 0 /\ th[t].consecutive_errors = 0
                      /\ th[t].setup_retry_count = 0

\* C36: while every cycle completes without error, flat or holding, the
\* health endpoint does not answer 'unhealthy', the health monitor starts
\* no thread and the guardian restarts no worker
C36_NoRestartWhileCycling ==
    [][CyclesComplete =>
          /\ http' # http => http'.status # "unhealthy"
          /\ hm'.restart_count <= hm.restart_count
          /\ \A t \in Threads : Alive(t)' => Alive(t)
          /\ pg'.restart_count <= pg.restart_count]_vars

====
